---- MODULE Spec2Model ----
(***************************************************************************)
(* Technology constraint builders of AdOpT-NET0                            *)
(* (generic_technology_constraints.py, ocean_battery_specific_3.py) and    *)
(* the preparation of their data (ccs.py, handle_input_data.py).           *)
(*                                                                         *)
(* A builder attaches constraints to a technology block b_tec; a solver    *)
(* then returns any assignment of the block's variables that satisfies     *)
(* them.  Numbers are exact rationals [n, d]; a constraint is evaluated on *)
(* an assignment exactly as its rule writes it.                            *)
(***************************************************************************)
EXTENDS Integers, Sequences, FiniteSets, TLC

VARIABLES
    tec_data,                        \* the technology descriptor handed to the builder
    big_m_transformation_required,   \* global_variables.big_m_transformation_required
    clustered_data,                  \* global_variables.clustered_data
    nr_timesteps_averaged,           \* global_variables.averaged_data_specs.nr_timesteps_averaged
    b_tec,                           \* the technology block under construction
    sol,                             \* the assignment the solver returned, or the ring walk
    runs,                            \* the builder calls of each run of the process so far
    ccs,                             \* the calls of fit_ccs_data so far, with what each gave
    handle,                          \* the DataHandle: topology, technology_data, clustering
    pc                               \* "construct", "built", "solved", "walking", "walked", "failed"

vars == <<tec_data, big_m_transformation_required, clustered_data, nr_timesteps_averaged,
          b_tec, sol, runs, ccs, handle, pc>>

----------------------------------------------------------------------------
(* Bounds of the model *)

\* flows of an assignment are k/10 for k in 0..MaxFlow
MaxFlow == 10

\* number of timesteps of the full horizon (model.set_t_full)
NTimesteps == 3

\* the number of averaged timesteps ranges over 1..MaxAveraged
MaxAveraged == 2

\* storage levels of an assignment are k/LevelSteps of the largest size
LevelSteps == 4

\* charging and discharging flows are k/RateSteps of the largest rate
RateSteps == 2

\* design and slot flows of an ocean battery are 3k/10 for k in 0..MaxOceanFlow
MaxOceanFlow == 4

\* design powers of an ocean battery are k/10 for k in 0..MaxOceanPower
MaxOceanPower == 19

\* a run of the process builds at most MaxCalls technologies
MaxCalls == 2

\* a node has at most MaxTecs new technologies
MaxTecs == 2

----------------------------------------------------------------------------
(* Exact arithmetic *)

Abs(x) == IF x < 0 THEN -x ELSE x

RECURSIVE GCD(_, _)
GCD(a, b) == IF b = 0 THEN a ELSE GCD(b, a % b)

\* the rational n/d (d > 0) in lowest terms
Rat(n, d) == LET g == GCD(Abs(n), d) IN [n |-> n \div g, d |-> d \div g]

Zero == Rat(0, 1)
One == Rat(1, 1)

\* sums and products are left unreduced; comparisons cross-multiply
RAdd(a, b) == [n |-> a.n * b.d + b.n * a.d, d |-> a.d * b.d]
RSub(a, b) == [n |-> a.n * b.d - b.n * a.d, d |-> a.d * b.d]
RMul(a, b) == [n |-> a.n * b.n, d |-> a.d * b.d]
\* a in lowest terms
Norm(a) == Rat(a.n, a.d)
RLe(a, b) == a.n * b.d <= b.n * a.d
RGe(a, b) == RLe(b, a)
RLt(a, b) == a.n * b.d < b.n * a.d
REq(a, b) == a.n * b.d = b.n * a.d

\* sums, products and quotients in lowest terms, cancelling before multiplying
RAddN(a, b) ==
    LET g == GCD(a.d, b.d)
    IN Rat(a.n * (b.d \div g) + b.n * (a.d \div g), (a.d \div g) * b.d)
RSubN(a, b) == RAddN(a, [n |-> -b.n, d |-> b.d])
RMulN(a, b) ==
    LET g1 == GCD(Abs(a.n), b.d)
        g2 == GCD(Abs(b.n), a.d)
    IN Rat((a.n \div g1) * (b.n \div g2), (a.d \div g2) * (b.d \div g1))
\* a / b for b > 0
RDivN(a, b) == RMulN(a, [n |-> b.d, d |-> b.n])

\* a ** k in lowest terms
RECURSIVE RPowN(_, _)
RPowN(a, k) == IF k = 0 THEN One ELSE RMulN(a, RPowN(a, k - 1))

\* sum(a ** i for i in range(0, k)) in lowest terms
RECURSIVE RGeomSumN(_, _)
RGeomSumN(a, k) == IF k = 0 THEN Zero ELSE RAddN(RPowN(a, k - 1), RGeomSumN(a, k - 1))

\* sum(f[c] for c in S)
RECURSIVE RSum(_, _)
RSum(f, S) ==
    IF S = {} THEN Zero
    ELSE LET c == CHOOSE x \in S : TRUE IN RAdd(f[c], RSum(f, S \ {c}))

\* seq[i] of a Python list (0-based; a negative index counts from the end)
PyIndex(seq, i) == IF i < 0 THEN seq[Len(seq) + i + 1] ELSE seq[i + 1]

\* range(0, k)
PyRange(k) == 0 .. (k - 1)

----------------------------------------------------------------------------
(* Model handle *)

set_t_full == 1 .. NTimesteps
set_t_clustered == 1 .. 1

FlowGrid == {Rat(k, 10) : k \in 0 .. MaxFlow}

----------------------------------------------------------------------------
(* Technology descriptors: tec_data with performance_data and              *)
(* fitted_performance.  size_min/size_max bound the size variable.         *)

InputCarriers == {"gas", "hydrogen"}
OutputCarriers == {"electricity", "heat"}

\* full substitution, linear with minimal part load:
\* alpha1 = 1.2, alpha2 = -0.1, min_part_load = 0.2, size = 5, rated_power = 1
Tec_CONV1_minload ==
    [technology_model |-> "CONV1", size_is_int |-> FALSE, size_min |-> 5, size_max |-> 5,
     performance_data |->
        [performance_function_type |-> 2, min_part_load |-> Rat(2, 10),
         input_carrier |-> InputCarriers, output_carrier |-> OutputCarriers],
     fitted_performance |->
        [out |-> [alpha1 |-> Rat(12, 10), alpha2 |-> Rat(-1, 10)]]]

\* full substitution, linear through the origin, with a maximum input share
Tec_CONV1_linear ==
    [technology_model |-> "CONV1", size_is_int |-> FALSE, size_min |-> 0, size_max |-> 1,
     performance_data |->
        [performance_function_type |-> 1,
         max_input |-> [hydrogen |-> Rat(1, 2)],
         input_carrier |-> InputCarriers, output_carrier |-> OutputCarriers],
     fitted_performance |->
        [out |-> [alpha1 |-> Rat(1, 2)]]]

\* full substitution, piecewise with two fitted segments, integer size
Tec_CONV1_piecewise ==
    [technology_model |-> "CONV1", size_is_int |-> TRUE, size_min |-> 1, size_max |-> 2,
     performance_data |->
        [performance_function_type |-> 3, min_part_load |-> Rat(1, 5),
         input_carrier |-> InputCarriers, output_carrier |-> OutputCarriers],
     fitted_performance |->
        [rated_power |-> Rat(1, 2),
         bp_x |-> <<Rat(1, 5), Rat(3, 5), One>>,
         out |-> [alpha1 |-> <<Rat(1, 2), One>>,
                  alpha2 |-> <<Zero, Rat(-3, 10)>>]]]

\* per-carrier performance curves, linear through the origin
Tec_CONV2_linear ==
    [technology_model |-> "CONV2", size_is_int |-> FALSE, size_min |-> 0, size_max |-> 1,
     performance_data |->
        [performance_function_type |-> 1,
         performance |-> [out |-> OutputCarriers],
         input_carrier |-> InputCarriers, output_carrier |-> OutputCarriers],
     fitted_performance |->
        [electricity |-> [alpha1 |-> Rat(1, 2)],
         heat |-> [alpha1 |-> Rat(3, 10)]]]

\* per-carrier performance curves, minimal part load, integer size
Tec_CONV2_minload ==
    [technology_model |-> "CONV2", size_is_int |-> TRUE, size_min |-> 1, size_max |-> 2,
     performance_data |->
        [performance_function_type |-> 2, min_part_load |-> Rat(2, 5),
         performance |-> [out |-> OutputCarriers],
         input_carrier |-> InputCarriers, output_carrier |-> OutputCarriers],
     fitted_performance |->
        [rated_power |-> Rat(1, 2),
         electricity |-> [alpha1 |-> Rat(1, 2), alpha2 |-> Rat(-1, 5)],
         heat |-> [alpha1 |-> Rat(1, 2), alpha2 |-> Zero]]]

\* per-carrier performance curves, piecewise with three fitted segments, no
\* min_part_load field
Tec_CONV2_piecewise ==
    [technology_model |-> "CONV2", size_is_int |-> FALSE, size_min |-> 0, size_max |-> 1,
     performance_data |->
        [performance_function_type |-> 3,
         performance |-> [out |-> OutputCarriers],
         input_carrier |-> InputCarriers, output_carrier |-> OutputCarriers],
     fitted_performance |->
        [bp_x |-> <<Zero, Rat(2, 5), Rat(3, 5), One>>,
         electricity |-> [alpha1 |-> <<Rat(1, 2), One, Rat(1, 2)>>,
                          alpha2 |-> <<Zero, Rat(-1, 5), Rat(1, 10)>>],
         heat |-> [alpha1 |-> <<Rat(1, 2), Rat(1, 2), Rat(1, 2)>>,
                   alpha2 |-> <<Zero, Zero, Zero>>]]]

\* fixed input ratio, linear through the origin
Tec_CONV3_linear ==
    [technology_model |-> "CONV3", size_is_int |-> FALSE, size_min |-> 0, size_max |-> 1,
     performance_data |->
        [performance_function_type |-> 1,
         performance |-> [out |-> OutputCarriers],
         main_input_carrier |-> "gas",
         input_ratios |-> [hydrogen |-> Rat(1, 2)],
         input_carrier |-> InputCarriers, output_carrier |-> OutputCarriers],
     fitted_performance |->
        [electricity |-> [alpha1 |-> Rat(1, 2)],
         heat |-> [alpha1 |-> Rat(3, 10)]]]

\* fixed input ratio, minimal part load min_part_load = 0.4 in the descriptor
Tec_CONV3_minload ==
    [technology_model |-> "CONV3", size_is_int |-> FALSE, size_min |-> 1, size_max |-> 1,
     performance_data |->
        [performance_function_type |-> 2, min_part_load |-> Rat(2, 5),
         performance |-> [out |-> OutputCarriers],
         main_input_carrier |-> "gas",
         input_ratios |-> [hydrogen |-> Rat(1, 2)],
         input_carrier |-> InputCarriers, output_carrier |-> OutputCarriers],
     fitted_performance |->
        [electricity |-> [alpha1 |-> Rat(1, 2), alpha2 |-> Rat(1, 10)],
         heat |-> [alpha1 |-> Rat(1, 2), alpha2 |-> Zero]]]

\* fixed input ratio, piecewise with two fitted segments, integer size
Tec_CONV3_piecewise ==
    [technology_model |-> "CONV3", size_is_int |-> TRUE, size_min |-> 1, size_max |-> 2,
     performance_data |->
        [performance_function_type |-> 3, min_part_load |-> Rat(1, 5),
         performance |-> [out |-> OutputCarriers],
         main_input_carrier |-> "hydrogen",
         input_ratios |-> [gas |-> Rat(1, 2)],
         input_carrier |-> InputCarriers, output_carrier |-> OutputCarriers],
     fitted_performance |->
        [rated_power |-> Rat(1, 2),
         bp_x |-> <<Rat(1, 5), Rat(3, 5), One>>,
         electricity |-> [alpha1 |-> <<Rat(1, 2), One>>, alpha2 |-> <<Zero, Rat(-3, 10)>>],
         heat |-> [alpha1 |-> <<Rat(1, 2), Rat(1, 2)>>, alpha2 |-> <<Zero, Zero>>]]]

\* fixed input ratio without the input_ratios field
Tec_CONV3_noratios ==
    [technology_model |-> "CONV3", size_is_int |-> FALSE, size_min |-> 0, size_max |-> 1,
     performance_data |->
        [performance_function_type |-> 2, min_part_load |-> Rat(2, 5),
         performance |-> [out |-> OutputCarriers],
         input_carrier |-> InputCarriers, output_carrier |-> OutputCarriers],
     fitted_performance |->
        [electricity |-> [alpha1 |-> Rat(1, 2), alpha2 |-> Zero],
         heat |-> [alpha1 |-> Rat(1, 2), alpha2 |-> Zero]]]

\* the descriptors a run may be given
----------------------------------------------------------------------------
(* Storage descriptors *)

StorCarriers == {"electricity"}

\* eta_in = eta_out = 0.9, lambda = 0.01, with an ambient loss at the last
\* timestep of the horizon
Tec_STOR_scenario ==
    [technology_model |-> "STOR", size_is_int |-> FALSE, size_min |-> 100, size_max |-> 100,
     performance_data |->
        [input_carrier |-> StorCarriers, output_carrier |-> StorCarriers],
     fitted_performance |->
        [eta_in |-> Rat(9, 10), eta_out |-> Rat(9, 10), lambda |-> Rat(1, 100),
         charge_max |-> Rat(1, 10), discharge_max |-> Rat(1, 10),
         ambient_loss_factor |->
            [t \in set_t_full |-> IF t = NTimesteps THEN Rat(1, 10) ELSE Zero]]]

\* no losses of any kind, charging and discharging exclude each other
Tec_STOR_lossless ==
    [technology_model |-> "STOR", size_is_int |-> FALSE, size_min |-> 0, size_max |-> 2,
     performance_data |->
        [allow_only_one_direction |-> 1,
         input_carrier |-> StorCarriers, output_carrier |-> StorCarriers],
     fitted_performance |->
        [eta_in |-> One, eta_out |-> One, lambda |-> Zero,
         charge_max |-> Rat(1, 2), discharge_max |-> Rat(1, 2),
         ambient_loss_factor |-> [t \in set_t_full |-> Zero]]]

\* no self-discharge, an ambient loss at every timestep but the first, a
\* positive minimum size
Tec_STOR_ambient ==
    [technology_model |-> "STOR", size_is_int |-> FALSE, size_min |-> 1, size_max |-> 2,
     performance_data |->
        [allow_only_one_direction |-> 0,
         input_carrier |-> StorCarriers, output_carrier |-> StorCarriers],
     fitted_performance |->
        [eta_in |-> One, eta_out |-> One, lambda |-> Zero,
         charge_max |-> Rat(1, 2), discharge_max |-> Rat(1, 2),
         ambient_loss_factor |->
            [t \in set_t_full |-> IF t = 1 THEN Zero ELSE Rat(1, 2)]]]

\* self-discharge of one half per timestep, lossy charging and discharging
Tec_STOR_decay ==
    [technology_model |-> "STOR", size_is_int |-> FALSE, size_min |-> 0, size_max |-> 2,
     performance_data |->
        [allow_only_one_direction |-> 1,
         input_carrier |-> StorCarriers, output_carrier |-> StorCarriers],
     fitted_performance |->
        [eta_in |-> Rat(1, 2), eta_out |-> Rat(1, 2), lambda |-> Rat(1, 2),
         charge_max |-> One, discharge_max |-> Rat(1, 2),
         ambient_loss_factor |-> [t \in set_t_full |-> Zero]]]

\* two carriers stored without losses, charging and discharging exclude
\* each other
Tec_STOR_twocarrier ==
    [technology_model |-> "STOR", size_is_int |-> FALSE, size_min |-> 0, size_max |-> 1,
     performance_data |->
        [allow_only_one_direction |-> 1,
         input_carrier |-> OutputCarriers, output_carrier |-> OutputCarriers],
     fitted_performance |->
        [eta_in |-> One, eta_out |-> One, lambda |-> Zero,
         charge_max |-> Rat(1, 2), discharge_max |-> Rat(1, 2),
         ambient_loss_factor |-> [t \in set_t_full |-> Zero]]]

----------------------------------------------------------------------------
(* Ocean battery descriptors: fitted_performance.coefficients and the      *)
(* annualization factor of the economics                                   *)

\* no self-discharge, a minimum fill of one quarter, equal unit capex
Tec_Ocean_lossless ==
    [technology_model |-> "OceanBattery3", size_is_int |-> FALSE, size_min |-> 1, size_max |-> 2,
     performance_data |->
        [input_carrier |-> StorCarriers, output_carrier |-> StorCarriers],
     annualization_factor |-> Rat(1, 10),
     fitted_performance |->
        [coefficients |->
            [lambda |-> Zero, min_fill |-> Rat(1, 4),
             pump_slots |-> 2, turbine_slots |-> 1,
             capex_turbines |-> One, capex_pumps |-> One]]]

\* self-discharge of one half per timestep, pumps dearer than turbines
Tec_Ocean_decay ==
    [technology_model |-> "OceanBattery3", size_is_int |-> FALSE, size_min |-> 0, size_max |-> 2,
     performance_data |->
        [input_carrier |-> StorCarriers, output_carrier |-> StorCarriers],
     annualization_factor |-> Rat(1, 10),
     fitted_performance |->
        [coefficients |->
            [lambda |-> Rat(1, 2), min_fill |-> Zero,
             pump_slots |-> 1, turbine_slots |-> 2,
             capex_turbines |-> One, capex_pumps |-> Rat(2, 1)]]]

----------------------------------------------------------------------------
(* Renewable descriptors: capacity_factor has one entry per timestep of    *)
(* the full horizon                                                        *)

\* capacity factors 0.5, 0.8 and then 1
CapacityFactor == [t \in set_t_full |-> IF t = 1 THEN Rat(1, 2)
                                        ELSE IF t = 2 THEN Rat(4, 5) ELSE One]

\* curtailment = 0, capacity_factor = [0.5, 0.8, ...], size = 10
Tec_RES_scenario ==
    [technology_model |-> "RES", size_is_int |-> FALSE, size_min |-> 10, size_max |-> 10,
     performance_data |-> [curtailment |-> 0, output_carrier |-> {"electricity"}],
     fitted_performance |-> [capacity_factor |-> CapacityFactor]]

\* no curtailment field, units of rated power 2, two output carriers
Tec_RES_default ==
    [technology_model |-> "RES", size_is_int |-> TRUE, size_min |-> 0, size_max |-> 2,
     performance_data |-> [output_carrier |-> OutputCarriers],
     fitted_performance |-> [capacity_factor |-> CapacityFactor, rated_power |-> Rat(2, 1)]]

\* continuous curtailment
Tec_RES_continuous ==
    [technology_model |-> "RES", size_is_int |-> FALSE, size_min |-> 0, size_max |-> 1,
     performance_data |-> [curtailment |-> 1, output_carrier |-> {"electricity"}],
     fitted_performance |-> [capacity_factor |-> CapacityFactor]]

\* discrete curtailment of units of rated power 2
Tec_RES_discrete ==
    [technology_model |-> "RES", size_is_int |-> TRUE, size_min |-> 0, size_max |-> 2,
     performance_data |-> [curtailment |-> 2, output_carrier |-> {"electricity"}],
     fitted_performance |-> [capacity_factor |-> CapacityFactor, rated_power |-> Rat(2, 1)]]

\* discrete curtailment asked of a continuously sized technology
Tec_RES_discrete_continuous ==
    [technology_model |-> "RES", size_is_int |-> FALSE, size_min |-> 0, size_max |-> 2,
     performance_data |-> [curtailment |-> 2, output_carrier |-> {"electricity"}],
     fitted_performance |-> [capacity_factor |-> CapacityFactor]]

\* the technologies a builder is run on
TecDescriptors ==
    <<Tec_CONV1_minload, Tec_CONV1_linear, Tec_CONV1_piecewise,
      Tec_CONV2_linear, Tec_CONV2_minload, Tec_CONV2_piecewise,
      Tec_CONV3_linear, Tec_CONV3_minload, Tec_CONV3_piecewise, Tec_CONV3_noratios,
      Tec_STOR_scenario, Tec_STOR_lossless, Tec_STOR_ambient, Tec_STOR_decay,
      Tec_STOR_twocarrier,
      Tec_Ocean_lossless, Tec_Ocean_decay,
      Tec_RES_scenario, Tec_RES_default, Tec_RES_continuous, Tec_RES_discrete,
      Tec_RES_discrete_continuous>>

\* b_tec.var_size ranges over the integers of [size_min, size_max]
SizeDomain(td) == {Rat(k, 1) : k \in td.size_min .. td.size_max}

\* b_tec.var_size of a renewable technology: a number of units when
\* size_is_int, else any size of [size_min, size_max] (half units here)
RES_SizeDomain(td) ==
    IF td.size_is_int THEN {Rat(k, 1) : k \in td.size_min .. td.size_max}
    ELSE {Rat(k, 2) : k \in 2 * td.size_min .. 2 * td.size_max}

\* the block before any builder has run
EmptyBlock == [builder |-> "none", components |-> {}]

\* the solver has returned nothing yet
NoSolution == [t |-> 0]

----------------------------------------------------------------------------
(* Disjunctions *)

\* a disjunction that asks for at least one indicator variable to be 1
Disjunction_any(bound, s) ==
    /\ \A i \in bound : s.indicator[i] \in {0, 1}
    /\ Cardinality({i \in bound : s.indicator[i] = 1}) >= 1

\* a Disjunction over the disjuncts the bind rule returns: exactly one of
\* their indicator variables is 1
Disjunction(bound, s) ==
    /\ \A i \in bound : s.indicator[i] \in {0, 1}
    /\ Cardinality({i \in bound : s.indicator[i] = 1}) = 1

\* the run with the call just made added: its descriptor, the block and
\* the flag it left, and whether it returned
record_call(block, flag, result) ==
    [runs EXCEPT ![Len(runs)] =
        Append(@, [tec_data |-> tec_data, b_tec |-> block,
                   big_m_transformation_required |-> flag, pc |-> result])]

----------------------------------------------------------------------------
(* constraints_tec_RES *)

\* the curtailment with the absent field read as continuous curtailment
RES_curtailment_continuous(td) ==
    IF "curtailment" \in DOMAIN td.performance_data
    THEN td.performance_data.curtailment
    ELSE 1

\* curtailment: performance_data['curtailment'], 0 when absent
RES_curtailment(td) ==
    IF "curtailment" \in DOMAIN td.performance_data
    THEN td.performance_data.curtailment
    ELSE 0

\* fitted_performance['capacity_factor'][t - 1]
RES_init_capfactors(td, t) == PyIndex(td.fitted_performance.capacity_factor, t - 1)

\* the components the builder attaches
RES_components(td) ==
    {"para_capfactor"}
    \cup (IF RES_curtailment(td) \in {0, 1} THEN {"const_input_output"} ELSE {})
    \cup (IF RES_curtailment(td) = 2
          THEN {"var_size_on", "const_curtailed_units", "const_input_output"} ELSE {})

\* var_size_on[t]: NonNegativeIntegers within (para_size_min, para_size_max)
RES_var_size_on(b, s, t) ==
    /\ s.size_on[t].d = 1
    /\ s.size_on[t].n >= 0
    /\ RGe(s.size_on[t], b.para_size_min)
    /\ RLe(s.size_on[t], b.para_size_max)

\* var_size_on[t] <= var_size
RES_init_curtailed_units(b, s, t) == RLe(s.size_on[t], s.var_size)

\* init_input_output of the curtailment the block was built with
RES_init_input_output(b, s, t, c_output) ==
    IF b.curtailment = 0
    THEN REq(s.output[t][c_output],
             RMul(RMul(b.para_capfactor[t], s.var_size), b.rated_power))
    ELSE IF b.curtailment = 1
    THEN RLe(s.output[t][c_output],
             RMul(RMul(b.para_capfactor[t], s.var_size), b.rated_power))
    ELSE REq(s.output[t][c_output],
             RMul(RMul(b.para_capfactor[t], s.size_on[t]), b.rated_power))

\* every constraint of a RES block at timestep t
RES_feasible(b, s, t) ==
    /\ "var_size_on" \in b.components => RES_var_size_on(b, s, t)
    /\ "const_curtailed_units" \in b.components => RES_init_curtailed_units(b, s, t)
    /\ "const_input_output" \in b.components =>
            \A c_output \in b.set_output_carriers : RES_init_input_output(b, s, t, c_output)

\* the builder indexes by the full horizon and by var_output whatever
\* clustered_data says
constraints_tec_RES ==
    /\ pc = "construct"
    /\ tec_data.technology_model = "RES"
    /\ b_tec' =
        [builder |-> "RES",
         components |-> RES_components(tec_data),
         set_t |-> set_t_full,
         output |-> "var_output",
         set_output_carriers |-> tec_data.performance_data.output_carrier,
         rated_power |-> IF tec_data.size_is_int
                         THEN tec_data.fitted_performance.rated_power ELSE One,
         curtailment |-> RES_curtailment(tec_data),
         para_size_min |-> Rat(tec_data.size_min, 1),
         para_size_max |-> Rat(tec_data.size_max, 1),
         para_capfactor |-> [t \in set_t_full |-> RES_init_capfactors(tec_data, t)]]
    /\ pc' = "built"
    /\ UNCHANGED <<tec_data, big_m_transformation_required, clustered_data,
                   nr_timesteps_averaged, sol>>
    /\ runs' = record_call(b_tec', big_m_transformation_required', pc')
    /\ UNCHANGED <<ccs, handle>>

----------------------------------------------------------------------------
(* constraints_tec_CONV1, constraints_tec_CONV2, constraints_tec_CONV3:    *)
(* the three builders share the text of most rules; they differ in the     *)
(* input that drives the outputs (the sum of the inputs, or the main       *)
(* carrier's input for CONV3) and in the outputs that are constrained (the *)
(* sum of the outputs for CONV1, each output carrier for CONV2 and CONV3)  *)

\* min_part_load: CONV1 and CONV2 look it up in performance_data, CONV3 in
\* fitted_performance
CONV_min_part_load(td) ==
    IF td.technology_model = "CONV3"
    THEN IF "min_part_load" \in DOMAIN td.fitted_performance
         THEN td.fitted_performance.min_part_load
         ELSE Zero
    ELSE IF "min_part_load" \in DOMAIN td.performance_data
         THEN td.performance_data.min_part_load
         ELSE Zero

\* alpha1: fitted_performance['out']['alpha1'] for CONV1, alpha1[c] for c
\* in performance_data['performance']['out'] for CONV2 and CONV3
CONV_alpha1(td) ==
    IF td.technology_model = "CONV1"
    THEN td.fitted_performance.out.alpha1
    ELSE [c \in td.performance_data.performance.out |-> td.fitted_performance[c].alpha1]

\* alpha2, read for performance function types 2 and 3 only
CONV_alpha2(td) ==
    IF td.performance_data.performance_function_type < 2 THEN "unbound"
    ELSE IF td.technology_model = "CONV1"
         THEN td.fitted_performance.out.alpha2
         ELSE [c \in td.performance_data.performance.out |-> td.fitted_performance[c].alpha2]

\* the indicator range with the last regime left out
CONV_s_indicators_short(td) ==
    IF td.performance_data.performance_function_type = 2 THEN PyRange(2)
    ELSE IF td.performance_data.performance_function_type = 3
         THEN PyRange(Len(td.fitted_performance.bp_x) - 1)
         ELSE {}

\* s_indicators of the disjuncts built for a performance function type
CONV_s_indicators(td) ==
    IF td.performance_data.performance_function_type = 2 THEN PyRange(2)
    ELSE IF td.performance_data.performance_function_type = 3
         THEN PyRange(Len(td.fitted_performance.bp_x))
         ELSE {}

\* components that follow the flag an earlier builder call left behind
CONV_components_shared(td) ==
    (IF td.performance_data.performance_function_type = 1
        /\ big_m_transformation_required = 0
     THEN {"const_input_output"}
     ELSE {"dis_input_output", "disjunction_input_output"})
    \cup {"const_size"}

\* the components the builder attaches
CONV_components(td) ==
    (IF td.performance_data.performance_function_type = 1
     THEN {"const_input_output"}
     ELSE {"dis_input_output", "disjunction_input_output"})
    \cup {"const_size"}
    \cup (IF td.technology_model = "CONV3" THEN {"const_input_input"}
          ELSE IF "max_input" \in DOMAIN td.performance_data
               THEN {"set_max_input_carriers", "const_max_input"} ELSE {})

CONV_warnings(td) ==
    (IF td.technology_model = "CONV3" /\ "input_ratios" \notin DOMAIN td.performance_data
     THEN {"Using CONV3 without input ratios makes no sense"} ELSE {})
    \cup (IF /\ td.performance_data.performance_function_type = 2
             /\ CONV_min_part_load(td) = Zero
          THEN {"performance_function_type = 2 with no part-load"}
          ELSE {})

\* a builder that never writes the flag
CONV_big_m_unwritten(td, flag) == flag

\* a flag write that also clears the flag
CONV_big_m_reset(td, flag) ==
    IF td.performance_data.performance_function_type >= 2 THEN 1 ELSE 0

\* global_variables.big_m_transformation_required after the builder: set
\* to 1 for performance function types 2 and 3, else left as it was
CONV_big_m(td, flag) ==
    IF td.performance_data.performance_function_type >= 2 THEN 1 ELSE flag

\* what the block keeps of the descriptor and of the globals
CONV_block(td, clustered) ==
    [builder |-> td.technology_model,
     components |-> CONV_components(td),
     set_t |-> IF clustered = 1 THEN set_t_clustered ELSE set_t_full,
     input |-> IF clustered = 1 THEN "var_input_aux" ELSE "var_input",
     output |-> IF clustered = 1 THEN "var_output_aux" ELSE "var_output",
     set_input_carriers |-> td.performance_data.input_carrier,
     set_output_carriers |-> td.performance_data.output_carrier,
     rated_power |-> IF td.size_is_int THEN td.fitted_performance.rated_power ELSE One,
     performance_function_type |-> td.performance_data.performance_function_type,
     alpha1 |-> CONV_alpha1(td),
     alpha2 |-> CONV_alpha2(td),
     bp_x |-> IF td.performance_data.performance_function_type = 3
              THEN td.fitted_performance.bp_x ELSE "unbound",
     min_part_load |-> CONV_min_part_load(td),
     s_indicators |-> CONV_s_indicators(td),
     main_car |-> IF td.technology_model = "CONV3"
                  THEN td.performance_data.main_input_carrier ELSE "unbound",
     phi |-> IF td.technology_model = "CONV3"
             THEN td.performance_data.input_ratios ELSE "unbound",
     max_input |-> IF td.technology_model # "CONV3" /\ "max_input" \in DOMAIN td.performance_data
                   THEN td.performance_data.max_input ELSE "unbound",
     set_max_input_carriers |->
            IF td.technology_model # "CONV3" /\ "max_input" \in DOMAIN td.performance_data
            THEN DOMAIN td.performance_data.max_input ELSE {},
     warnings |-> CONV_warnings(td)]

\* sum(input[t, car_input] for car_input in b_tec.set_input_carriers), or
\* input[t, main_car] in constraints_tec_CONV3
driving_input(b, s) ==
    IF b.builder = "CONV3" THEN s.input[b.main_car] ELSE RSum(s.input, b.set_input_carriers)

\* b_tec.var_size * rated_power
size_rated(b, s) == RMul(s.var_size, b.rated_power)

\* the output relation with coefficients a1 and a2: on the sum of the
\* outputs in constraints_tec_CONV1 (a1, a2 numbers), on each output
\* carrier in CONV2 and CONV3 (a1, a2 indexed by carrier)
CONV_output_relation(b, s, a1, a2) ==
    IF b.builder = "CONV1"
    THEN REq(RSum(s.output, b.set_output_carriers),
             RAdd(RMul(a1, driving_input(b, s)), RMul(a2, size_rated(b, s))))
    ELSE \A car_output \in b.set_output_carriers :
            REq(s.output[car_output],
                RAdd(RMul(a1[car_output], driving_input(b, s)),
                     RMul(a2[car_output], size_rated(b, s))))

\* performance_function_type 1: output == alpha1 * input
CONV_init_input_output_linear(b, s) ==
    IF b.builder = "CONV1"
    THEN REq(RSum(s.output, b.set_output_carriers), RMul(b.alpha1, driving_input(b, s)))
    ELSE \A car_output \in b.set_output_carriers :
            REq(s.output[car_output], RMul(b.alpha1[car_output], driving_input(b, s)))

\* init_input_off, init_output_off: every input and every output is 0
CONV_init_off(b, s) ==
    /\ \A car_input \in b.set_input_carriers : REq(s.input[car_input], Zero)
    /\ \A car_output \in b.set_output_carriers : REq(s.output[car_output], Zero)

\* input >= min_part_load * size * rated_power
CONV_init_min_partload(b, s) ==
    RGe(driving_input(b, s), RMul(b.min_part_load, size_rated(b, s)))

\* performance_function_type 3: input >= bp_x[ind - 1] * size * rated_power
CONV_init_input_on1(b, s, ind) ==
    RGe(driving_input(b, s), RMul(PyIndex(b.bp_x, ind - 1), size_rated(b, s)))

\* the upper bound of a segment taken as strict
CONV_init_input_on2_strict(b, s, ind) ==
    RLt(driving_input(b, s), RMul(PyIndex(b.bp_x, ind), size_rated(b, s)))

\* performance_function_type 3: input <= bp_x[ind] * size * rated_power
CONV_init_input_on2(b, s, ind) ==
    RLe(driving_input(b, s), RMul(PyIndex(b.bp_x, ind), size_rated(b, s)))

\* performance_function_type 3: output == alpha1[ind - 1] * input +
\* alpha2[ind - 1] * size * rated_power
CONV_init_output_on(b, s, ind) ==
    IF b.builder = "CONV1"
    THEN CONV_output_relation(b, s, PyIndex(b.alpha1, ind - 1), PyIndex(b.alpha2, ind - 1))
    ELSE CONV_output_relation(b, s,
            [c \in b.set_output_carriers |-> PyIndex(b.alpha1[c], ind - 1)],
            [c \in b.set_output_carriers |-> PyIndex(b.alpha2[c], ind - 1)])

\* the constraints of disjunct dis_input_output[t, ind]
CONV_init_input_output(b, s, ind) ==
    IF ind = 0 THEN CONV_init_off(b, s)
    ELSE IF b.performance_function_type = 2
         THEN /\ CONV_output_relation(b, s, b.alpha1, b.alpha2)
              /\ CONV_init_min_partload(b, s)
         ELSE /\ CONV_init_input_on1(b, s, ind)
              /\ CONV_init_input_on2(b, s, ind)
              /\ CONV_init_output_on(b, s, ind)
              /\ CONV_init_min_partload(b, s)

\* the input ratio taken as an upper bound only
CONV_init_input_input_le(b, s, car_input) ==
    IF car_input = b.main_car
    THEN TRUE
    ELSE RLe(s.input[car_input], RMul(b.phi[car_input], s.input[b.main_car]))

\* constraints_tec_CONV3: input[t, car_input] == phi[car_input] * input[t, main_car]
CONV_init_input_input(b, s, car_input) ==
    IF car_input = b.main_car
    THEN TRUE
    ELSE REq(s.input[car_input], RMul(b.phi[car_input], s.input[b.main_car]))

\* the size constraint without the rated power
CONV_init_size_constraint_unrated(b, s) == RLe(driving_input(b, s), s.var_size)

\* input <= size * rated_power
CONV_init_size_constraint(b, s) == RLe(driving_input(b, s), size_rated(b, s))

\* input[t, car] <= max_input[car] * sum(input)
CONV_init_max_input(b, s, car) ==
    RLe(s.input[car], RMul(b.max_input[car], driving_input(b, s)))

\* the constraints of a block that read only the indicator variables
feasible_indicators(b, s) ==
    "disjunction_input_output" \in b.components => Disjunction(b.s_indicators, s)

\* the constraints of a block that read only the size and the inputs
feasible_inputs(b, s) ==
    /\ "const_input_input" \in b.components =>
            \A car_input \in b.set_input_carriers : CONV_init_input_input(b, s, car_input)
    /\ "const_size" \in b.components => CONV_init_size_constraint(b, s)
    /\ "const_max_input" \in b.components =>
            \A car \in b.set_max_input_carriers : CONV_init_max_input(b, s, car)

\* the constraints of a block that couple inputs and outputs
feasible_flows(b, s) ==
    /\ "const_input_output" \in b.components => CONV_init_input_output_linear(b, s)
    /\ "dis_input_output" \in b.components =>
            \A ind \in b.s_indicators :
                s.indicator[ind] = 1 => CONV_init_input_output(b, s, ind)

constraints_tec_CONV1 ==
    /\ pc = "construct"
    /\ tec_data.technology_model = "CONV1"
    /\ big_m_transformation_required' = CONV_big_m(tec_data, big_m_transformation_required)
    /\ b_tec' = CONV_block(tec_data, clustered_data)
    /\ pc' = "built"
    /\ UNCHANGED <<tec_data, clustered_data, nr_timesteps_averaged, sol>>
    /\ runs' = record_call(b_tec', big_m_transformation_required', pc')
    /\ UNCHANGED <<ccs, handle>>

constraints_tec_CONV2 ==
    /\ pc = "construct"
    /\ tec_data.technology_model = "CONV2"
    /\ big_m_transformation_required' = CONV_big_m(tec_data, big_m_transformation_required)
    /\ b_tec' = CONV_block(tec_data, clustered_data)
    /\ pc' = "built"
    /\ UNCHANGED <<tec_data, clustered_data, nr_timesteps_averaged, sol>>
    /\ runs' = record_call(b_tec', big_m_transformation_required', pc')
    /\ UNCHANGED <<ccs, handle>>

\* without input_ratios main_car is never bound: the first rule that reads
\* it raises NameError and the builder does not return
constraints_tec_CONV3 ==
    /\ pc = "construct"
    /\ tec_data.technology_model = "CONV3"
    /\ big_m_transformation_required' = CONV_big_m(tec_data, big_m_transformation_required)
    /\ IF "input_ratios" \in DOMAIN tec_data.performance_data
       THEN /\ b_tec' = CONV_block(tec_data, clustered_data)
            /\ pc' = "built"
       ELSE /\ b_tec' = [builder |-> "CONV3", components |-> {},
                         warnings |-> CONV_warnings(tec_data),
                         error |-> "NameError: main_car"]
            /\ pc' = "failed"
    /\ UNCHANGED <<tec_data, clustered_data, nr_timesteps_averaged, sol>>
    /\ runs' = record_call(b_tec', big_m_transformation_required', pc')
    /\ UNCHANGED <<ccs, handle>>

----------------------------------------------------------------------------
(* constraints_tec_STOR *)

\* max(set_t)
MaxT(set_t) == CHOOSE t \in set_t : \A u \in set_t : u <= t

STOR_allow_only_one_direction(td) ==
    IF "allow_only_one_direction" \in DOMAIN td.performance_data
    THEN td.performance_data.allow_only_one_direction
    ELSE 0

STOR_components(td) ==
    {"var_storage_level", "const_size", "const_storage_level",
     "const_max_charge", "const_max_discharge"}
    \cup (IF STOR_allow_only_one_direction(td) = 1
          THEN {"dis_input_output", "disjunction_input_output"}
          ELSE {})

\* fitted_performance['ambient_loss_factor'][t - 1]
STOR_init_ambient_loss_factor(td, t) ==
    PyIndex(td.fitted_performance.ambient_loss_factor, t - 1)

\* domain and bounds of var_storage_level[t, car]
STOR_var_storage_level(b, s, t, car) ==
    /\ RGe(s.level[t][car], Zero)
    /\ RGe(s.level[t][car], b.para_size_min)
    /\ RLe(s.level[t][car], b.para_size_max)

\* the level held below the largest size instead of the size
STOR_init_size_constraint_max(b, s, t, car) == RLe(s.level[t][car], b.para_size_max)

\* var_storage_level[t, car] <= var_size
STOR_init_size_constraint(b, s, t, car) == RLe(s.level[t][car], s.var_size)

\* (eta_in * input[t, car] - 1 / eta_out * output[t, car]) *
\* sum((1 - eta_lambda) ** i for i in range(0, nr_timesteps_averaged))
STOR_charge_term(b, s, car) ==
    RMulN(RSubN(RMulN(b.para_eta_in, s.input[car]),
                RMulN(RDivN(One, b.para_eta_out), s.output[car])),
          RGeomSumN(RSubN(One, b.para_eta_lambda), b.nr_timesteps_averaged))

\* the ambient loss of the first timestep: it scales with the last level
STOR_ambient_loss_first(b, s, car) ==
    RMulN(s.level[MaxT(b.set_t)][car],
          RPowN(b.para_ambient_loss_factor[MaxT(b.set_t)], b.nr_timesteps_averaged))

\* the ambient loss of every other timestep: the timestep's factor times
\* the last timestep's factor
STOR_ambient_loss_other(b, t) ==
    RMulN(b.para_ambient_loss_factor[t],
          RPowN(b.para_ambient_loss_factor[MaxT(b.set_t)], b.nr_timesteps_averaged))

\* the calculation with the self-discharge coefficient in place of what
\* is kept of the level
STOR_storage_level_rhs_lost(b, s, t, car) ==
    IF t = 1
    THEN RAddN(RSubN(RMulN(s.level[MaxT(b.set_t)][car],
                           RPowN(b.para_eta_lambda, b.nr_timesteps_averaged)),
                     STOR_ambient_loss_first(b, s, car)),
               STOR_charge_term(b, s, car))
    ELSE RAddN(RSubN(RMulN(s.level[t - 1][car],
                           RPowN(b.para_eta_lambda, b.nr_timesteps_averaged)),
                     STOR_ambient_loss_other(b, t)),
               STOR_charge_term(b, s, car))

\* the right-hand side of the storage level calculation at t
STOR_storage_level_rhs(b, s, t, car) ==
    IF t = 1
    THEN RAddN(RSubN(RMulN(s.level[MaxT(b.set_t)][car],
                           RPowN(RSubN(One, b.para_eta_lambda), b.nr_timesteps_averaged)),
                     STOR_ambient_loss_first(b, s, car)),
               STOR_charge_term(b, s, car))
    ELSE RAddN(RSubN(RMulN(s.level[t - 1][car],
                           RPowN(RSubN(One, b.para_eta_lambda), b.nr_timesteps_averaged)),
                     STOR_ambient_loss_other(b, t)),
               STOR_charge_term(b, s, car))

STOR_init_storage_level(b, s, t, car) ==
    REq(s.level[t][car], STOR_storage_level_rhs(b, s, t, car))

\* disjuncts that bind a single carrier
STOR_init_input_output_some(b, s, ind) ==
    IF ind = 0
    THEN \E car_input \in b.set_input_carriers : s.output[car_input] = Zero
    ELSE \E car_input \in b.set_input_carriers : s.input[car_input] = Zero

\* disjunct 0 (input only): init_output_to_zero; disjunct 1 (output only):
\* init_input_to_zero
STOR_init_input_output(b, s, ind) ==
    IF ind = 0
    THEN \A car_input \in b.set_input_carriers : s.output[car_input] = Zero
    ELSE \A car_input \in b.set_input_carriers : s.input[car_input] = Zero

STOR_init_maximal_charge(b, s, car) ==
    RLe(s.input[car], RMul(b.para_charge_max, s.var_size))

STOR_init_maximal_discharge(b, s, car) ==
    RLe(s.output[car], RMul(b.para_discharge_max, s.var_size))

\* the constraints of a STOR block on the levels of s
STOR_feasible_levels(b, s) ==
    \A t \in DOMAIN s.level, car \in b.set_input_carriers :
        /\ STOR_var_storage_level(b, s, t, car)
        /\ STOR_init_size_constraint(b, s, t, car)

\* the constraints of a STOR block on the flows of s
STOR_feasible_flows(b, s) ==
    /\ "disjunction_input_output" \in b.components =>
            /\ Disjunction(b.s_indicators, s)
            /\ \A ind \in b.s_indicators :
                    s.indicator[ind] = 1 => STOR_init_input_output(b, s, ind)
    /\ \A car \in b.set_input_carriers :
            /\ STOR_init_maximal_charge(b, s, car)
            /\ STOR_init_maximal_discharge(b, s, car)

\* every constraint of a STOR block at the timestep of s
STOR_feasible(b, s) ==
    /\ STOR_feasible_flows(b, s)
    /\ \A car \in b.set_input_carriers : STOR_init_storage_level(b, s, s.t, car)
    /\ STOR_feasible_levels(b, s)

constraints_tec_STOR ==
    /\ pc = "construct"
    /\ tec_data.technology_model = "STOR"
    /\ big_m_transformation_required' =
            IF STOR_allow_only_one_direction(tec_data) = 1
            THEN 1 ELSE big_m_transformation_required
    /\ b_tec' =
        [builder |-> "STOR",
         components |-> STOR_components(tec_data),
         set_t |-> set_t_full,
         set_input_carriers |-> tec_data.performance_data.input_carrier,
         nr_timesteps_averaged |-> nr_timesteps_averaged,
         para_size_min |-> Rat(tec_data.size_min, 1),
         para_size_max |-> Rat(tec_data.size_max, 1),
         para_eta_in |-> tec_data.fitted_performance.eta_in,
         para_eta_out |-> tec_data.fitted_performance.eta_out,
         para_eta_lambda |-> tec_data.fitted_performance.lambda,
         para_charge_max |-> tec_data.fitted_performance.charge_max,
         para_discharge_max |-> tec_data.fitted_performance.discharge_max,
         para_ambient_loss_factor |->
            [t \in set_t_full |-> STOR_init_ambient_loss_factor(tec_data, t)],
         allow_only_one_direction |-> STOR_allow_only_one_direction(tec_data),
         s_indicators |-> IF STOR_allow_only_one_direction(tec_data) = 1 THEN PyRange(2) ELSE {}]
    /\ pc' = "built"
    /\ UNCHANGED <<tec_data, clustered_data, nr_timesteps_averaged, sol>>
    /\ runs' = record_call(b_tec', big_m_transformation_required', pc')
    /\ UNCHANGED <<ccs, handle>>

----------------------------------------------------------------------------
(* OceanBattery3 *)

\* the bounds of the ocean battery's variables
Ocean_calulate_bounds(td) ==
    [size_min |-> Rat(td.size_min, 1),
     size_max |-> Rat(td.size_max, 1),
     pump_flow_ub |-> Rat(10, 1),
     pump_power_ub |-> RMul(Rat(10, 1), Rat(5, 1)),
     turbine_flow_ub |-> Rat(10, 1),
     turbine_power_ub |-> RMul(Rat(10, 1), Rat(5, 1)),
     capex_turbines |->
        RMulN(td.annualization_factor, td.fitted_performance.coefficients.capex_turbines),
     capex_pumps |->
        RMulN(td.annualization_factor, td.fitted_performance.coefficients.capex_turbines)]

\* bp_x, alpha1, alpha2 of the turbine design
Ocean_turbine_design ==
    [bp_x |-> <<Rat(1, 10), Rat(9, 10), Rat(12, 10)>>,
     alpha2 |-> <<Rat(18, 10), Rat(2, 1)>>,
     alpha1 |-> <<Zero, Rat(1, 10)>>]

\* bp_x, alpha1, alpha2 of the pump design
Ocean_pump_design ==
    [bp_x |-> <<Rat(1, 10), Rat(9, 10), Rat(12, 10)>>,
     alpha2 |-> <<Rat(18, 10), Rat(2, 1)>>,
     alpha1 |-> <<Zero, Rat(-1, 10)>>]

\* beta1, beta2, bp_x of a turbine's performance block
Ocean_turbine_performance ==
    [beta1 |-> <<Rat(23, 10)>>, beta2 |-> <<Zero>>, bp_x |-> <<Rat(1, 10), One>>]

\* beta1, beta2, bp_x of a pump's performance block
Ocean_pump_performance ==
    [beta1 |-> <<Rat(18, 10)>>, beta2 |-> <<Zero>>, bp_x |-> <<Rat(1, 10), One>>]

\* capex_turbines[0], capex_turbines[1]
Ocean_capex_turbines(td) ==
    [ind \in 0 .. 1 |->
        IF ind = 0 THEN Zero
        ELSE RMulN(td.annualization_factor, td.fitted_performance.coefficients.capex_turbines)]

\* capex_pumps[0], capex_pumps[1]
Ocean_capex_pumps(td) ==
    [ind \in 0 .. 1 |->
        IF ind = 0 THEN Zero
        ELSE RMulN(td.annualization_factor, td.fitted_performance.coefficients.capex_pumps)]

Ocean_components ==
    {"var_storage_level", "var_total_inflow", "var_total_outflow",
     "var_designflow_single_pump", "var_designpower_single_pump", "var_capex_pump",
     "var_input_pump", "var_inflow_pump",
     "var_designflow_single_turbine", "var_designpower_single_turbine", "var_capex_turbine",
     "var_output_turbine", "var_outflow_turbine",
     "const_size_up", "const_size_low", "const_storage_level",
     "dis_turbine_design", "disjunction_turbine_design",
     "dis_pump_design", "disjunction_pump_design",
     "dis_turbine_install", "disjunction_turbine_install",
     "dis_pump_install", "disjunction_pump_install",
     "const_total_input", "const_total_output", "const_total_inflow",
     "const_total_outflow", "const_capex_aux"}

(* storage level *)

\* domain and bounds of var_storage_level[t]
Ocean_var_storage_level(b, s, t) ==
    /\ RGe(s.level[t], Zero)
    /\ RGe(s.level[t], b.bounds.size_min)
    /\ RLe(s.level[t], b.bounds.size_max)

\* bounds of var_total_inflow[t] and var_total_outflow[t]
Ocean_var_total_flows(b, s) ==
    /\ RGe(s.total_inflow, Zero)
    /\ RLe(s.total_inflow, RMul(Rat(b.pump_slots, 1), b.bounds.pump_flow_ub))
    /\ RGe(s.total_outflow, Zero)
    /\ RLe(s.total_outflow, RMul(Rat(b.turbine_slots, 1), b.bounds.turbine_power_ub))

Ocean_init_fill_constraint_up(b, s, t) == RLe(s.level[t], s.var_size)

Ocean_init_fill_constraint_low(b, s, t) == RGe(s.level[t], RMul(b.min_fill, s.var_size))

\* the right-hand side of the storage level calculation at t: the level
\* before t (the last one for t = 1) * (1 - eta_lambda) ** nr_timesteps_averaged
\* + (var_total_inflow[t] - var_total_outflow[t]) *
\* sum((1 - eta_lambda) ** i for i in range(0, nr_timesteps_averaged))
Ocean_storage_level_rhs(b, s, t) ==
    RAddN(RMulN(IF t = 1 THEN s.level[MaxT(b.set_t)] ELSE s.level[t - 1],
                RPowN(RSubN(One, b.eta_lambda), b.nr_timesteps_averaged)),
          RMulN(RSubN(s.total_inflow, s.total_outflow),
                RGeomSumN(RSubN(One, b.eta_lambda), b.nr_timesteps_averaged)))

Ocean_init_storage_level(b, s, t) ==
    REq(s.level[t], Ocean_storage_level_rhs(b, s, t))

\* the constraints of an ocean battery on the levels of s
Ocean_feasible_levels(b, s) ==
    \A t \in DOMAIN s.level :
        /\ Ocean_var_storage_level(b, s, t)
        /\ Ocean_init_fill_constraint_up(b, s, t)
        /\ Ocean_init_fill_constraint_low(b, s, t)

\* every constraint of an ocean battery on the storage level at the
\* timestep of s
Ocean_feasible_storage(b, s) ==
    /\ Ocean_var_total_flows(b, s)
    /\ Ocean_init_storage_level(b, s, s.t)
    /\ Ocean_feasible_levels(b, s)

(* design of the single turbine and the single pump; s.kind is "turbine"   *)
(* or "pump", s.designflow and s.designpower the design variables of that  *)
(* kind                                                                    *)

\* what the block holds for the turbines or for the pumps
Ocean_kind(b, kind) ==
    IF kind = "turbine"
    THEN [design |-> b.turbine_design, performance |-> b.turbine_performance,
          capex |-> b.capex_turbines, slots |-> b.set_turbine_slots,
          flow_ub |-> b.bounds.turbine_flow_ub, power_ub |-> b.bounds.turbine_power_ub,
          capex_ub |-> b.bounds.capex_turbines,
          s_indicators_design |-> PyRange(Len(b.turbine_design.bp_x) - 1),
          s_indicators_onoff |-> PyRange(Len(b.turbine_performance.bp_x))]
    ELSE [design |-> b.pump_design, performance |-> b.pump_performance,
          capex |-> b.capex_pumps, slots |-> b.set_pump_slots,
          flow_ub |-> b.bounds.pump_flow_ub, power_ub |-> b.bounds.pump_power_ub,
          capex_ub |-> b.bounds.capex_pumps,
          s_indicators_design |-> PyRange(Len(b.pump_design.bp_x) - 1),
          s_indicators_onoff |-> PyRange(Len(b.pump_performance.bp_x))]

\* bounds of var_designflow_single_*, var_designpower_single_*
Ocean_var_design(b, s) ==
    /\ RGe(s.designflow, Zero) /\ RLe(s.designflow, Ocean_kind(b, s.kind).flow_ub)
    /\ RGe(s.designpower, Zero) /\ RLe(s.designpower, Ocean_kind(b, s.kind).power_ub)

\* bounds of var_capex_*[slot]
Ocean_var_capex(b, s) ==
    /\ RGe(s.capex, Zero) /\ RLe(s.capex, Ocean_kind(b, s.kind).capex_ub)

\* bounds of the slot's flow and power at t
Ocean_var_slot_flows(b, s, t) ==
    /\ RGe(s.flow[t], Zero) /\ RLe(s.flow[t], Ocean_kind(b, s.kind).flow_ub)
    /\ RGe(s.power[t], Zero) /\ RLe(s.power[t], Ocean_kind(b, s.kind).power_ub)

\* the design disjunct ind: init_design_power, init_design_power_lb,
\* init_design_power_ub
Ocean_design_dis_init(b, s, ind) ==
    /\ REq(s.designpower,
           RAdd(PyIndex(Ocean_kind(b, s.kind).design.alpha1, ind),
                RMul(PyIndex(Ocean_kind(b, s.kind).design.alpha2, ind), s.designflow)))
    /\ RGe(s.designflow, PyIndex(Ocean_kind(b, s.kind).design.bp_x, ind - 1))
    /\ RLe(s.designflow, PyIndex(Ocean_kind(b, s.kind).design.bp_x, ind))

\* the design variables, their bounds and the design disjunction
Ocean_feasible_design(b, s) ==
    /\ Ocean_var_design(b, s)
    /\ Disjunction(Ocean_kind(b, s.kind).s_indicators_design,
                   [indicator |-> s.design_indicator])
    /\ \A ind \in Ocean_kind(b, s.kind).s_indicators_design :
            s.design_indicator[ind] = 1 => Ocean_design_dis_init(b, s, ind)

(* slots *)

\* the on disjunct without its lower bound on the flow
Ocean_onoff_dis_init_no_lb(b, s, t, ind) ==
    IF ind = 0
    THEN /\ s.flow[t] = Zero
         /\ s.power[t] = Zero
    ELSE /\ RLe(s.flow[t],
                RMul(PyIndex(Ocean_kind(b, s.kind).performance.bp_x, ind), s.designflow))
         /\ REq(s.power[t],
                RAdd(RMul(PyIndex(Ocean_kind(b, s.kind).performance.beta1, ind - 1), s.designpower),
                     RMul(PyIndex(Ocean_kind(b, s.kind).performance.beta2, ind - 1), s.flow[t])))

\* on/off disjunct ind of the slot at t
Ocean_onoff_dis_init(b, s, t, ind) ==
    IF ind = 0
    THEN /\ s.flow[t] = Zero
         /\ s.power[t] = Zero
    ELSE /\ RGe(s.flow[t],
                RMul(PyIndex(Ocean_kind(b, s.kind).performance.bp_x, ind - 1), s.designflow))
         /\ RLe(s.flow[t],
                RMul(PyIndex(Ocean_kind(b, s.kind).performance.bp_x, ind), s.designflow))
         /\ REq(s.power[t],
                RAdd(RMul(PyIndex(Ocean_kind(b, s.kind).performance.beta1, ind - 1), s.designpower),
                     RMul(PyIndex(Ocean_kind(b, s.kind).performance.beta2, ind - 1), s.flow[t])))

\* the performance block of an installed slot at t: its on/off disjunction
Ocean_performance_block_init(b, s, t) ==
    /\ Disjunction(Ocean_kind(b, s.kind).s_indicators_onoff,
                   [indicator |-> s.onoff[t]])
    /\ \A ind \in Ocean_kind(b, s.kind).s_indicators_onoff :
            s.onoff[t][ind] = 1 => Ocean_onoff_dis_init(b, s, t, ind)

\* a capex charged whether the slot is installed or not
Ocean_install_capex_always(b, s, ind) ==
    REq(s.capex, RMul(Ocean_kind(b, s.kind).capex[1], s.designflow))

\* the capex of an installed slot capped by the design flow, not tied to it
Ocean_install_capex_le(b, s, ind) ==
    IF ind = 0
    THEN s.capex = Zero
    ELSE RLe(s.capex, RMul(Ocean_kind(b, s.kind).capex[ind], s.designflow))

\* the capex constraint of install disjunct ind
Ocean_install_capex(b, s, ind) ==
    IF ind = 0
    THEN s.capex = Zero
    ELSE REq(s.capex, RMul(Ocean_kind(b, s.kind).capex[ind], s.designflow))

\* what install disjunct ind requires of the slot at t; the performance
\* block lives inside the install disjunct, so its disjunction binds
\* installed slots only
Ocean_install_dis_init(b, s, t, ind) ==
    IF ind = 0
    THEN /\ s.flow[t] = Zero
         /\ s.power[t] = Zero
    ELSE Ocean_performance_block_init(b, s, t)

\* the install disjunction of the slot and the capex of the active disjunct
Ocean_feasible_install(b, s) ==
    /\ Ocean_var_capex(b, s)
    /\ Disjunction(PyRange(2), [indicator |-> s.install_indicator])
    /\ \A ind \in PyRange(2) :
            s.install_indicator[ind] = 1 => Ocean_install_capex(b, s, ind)

\* the constraints on the slot's flow, power and on/off indicators at t
Ocean_feasible_slot_at(b, s, t) ==
    /\ Ocean_var_slot_flows(b, s, t)
    /\ \A ind \in PyRange(2) :
            s.install_indicator[ind] = 1 => Ocean_install_dis_init(b, s, t, ind)

construct_tech_model ==
    /\ pc = "construct"
    /\ tec_data.technology_model = "OceanBattery3"
    /\ b_tec' =
        [builder |-> "OceanBattery3",
         components |-> Ocean_components,
         set_t |-> set_t_full,
         set_input_carriers |-> tec_data.performance_data.input_carrier,
         nr_timesteps_averaged |-> nr_timesteps_averaged,
         bounds |-> Ocean_calulate_bounds(tec_data),
         pump_slots |-> tec_data.fitted_performance.coefficients.pump_slots,
         turbine_slots |-> tec_data.fitted_performance.coefficients.turbine_slots,
         set_pump_slots |-> 1 .. tec_data.fitted_performance.coefficients.pump_slots,
         set_turbine_slots |-> 1 .. tec_data.fitted_performance.coefficients.turbine_slots,
         eta_lambda |-> tec_data.fitted_performance.coefficients.lambda,
         min_fill |-> tec_data.fitted_performance.coefficients.min_fill,
         turbine_design |-> Ocean_turbine_design,
         pump_design |-> Ocean_pump_design,
         turbine_performance |-> Ocean_turbine_performance,
         pump_performance |-> Ocean_pump_performance,
         capex_turbines |-> Ocean_capex_turbines(tec_data),
         capex_pumps |-> Ocean_capex_pumps(tec_data)]
    /\ pc' = "built"
    /\ UNCHANGED <<tec_data, big_m_transformation_required, clustered_data,
                   nr_timesteps_averaged, sol>>
    /\ runs' = record_call(b_tec', big_m_transformation_required', pc')
    /\ UNCHANGED <<ccs, handle>>

----------------------------------------------------------------------------
(* The solver: any assignment of the block's variables at one timestep     *)
(* that satisfies every constraint the builder attached.                   *)

\* the search assigns indicators, then inputs, then outputs, and drops a
\* partial assignment as soon as a constraint on what is assigned fails
solve_conv ==
    /\ pc = "built"
    /\ b_tec.builder \in {"CONV1", "CONV2", "CONV3"}
    /\ \E size \in SizeDomain(tec_data), t \in b_tec.set_t :
        \E indicator \in [b_tec.s_indicators -> {0, 1}] :
          /\ feasible_indicators(b_tec, [indicator |-> indicator])
          /\ \E input \in [b_tec.set_input_carriers -> FlowGrid] :
              /\ feasible_inputs(b_tec, [var_size |-> size, input |-> input])
              /\ \E output \in [b_tec.set_output_carriers -> FlowGrid] :
                    LET s == [t |-> t, var_size |-> size, indicator |-> indicator,
                              input |-> input, output |-> output]
                    IN /\ feasible_flows(b_tec, s)
                       /\ sol' = s
    /\ pc' = "solved"
    /\ UNCHANGED <<ccs, handle, runs, tec_data, big_m_transformation_required, clustered_data,
                   nr_timesteps_averaged, b_tec>>


(* renewable technologies: the assignment covers every timestep *)

\* the outputs and active units a RES block admits at t for a size
RES_points(b, td, size, t) ==
    {c \in [output : [b.set_output_carriers ->
                        {RMulN(RMulN(b.para_capfactor[t], Rat(k, 2)), b.rated_power) :
                            k \in 0 .. 2 * td.size_max}],
            size_on : {Rat(k, 1) : k \in 0 .. td.size_max}] :
        /\ "var_size_on" \notin b.components => c.size_on = Zero
        /\ RES_feasible(b, [var_size |-> size, output |-> (t :> c.output),
                            size_on |-> (t :> c.size_on)], t)}

solve_res ==
    /\ pc = "built"
    /\ b_tec.builder = "RES"
    /\ \E size \in RES_SizeDomain(tec_data) :
        LET at == [t \in b_tec.set_t |-> RES_points(b_tec, tec_data, size, t)]
        IN \E points \in [b_tec.set_t -> UNION {at[t] : t \in b_tec.set_t}] :
            /\ \A t \in b_tec.set_t : points[t] \in at[t]
            /\ sol' = [var_size |-> size,
                       output |-> [t \in b_tec.set_t |-> points[t].output],
                       size_on |-> [t \in b_tec.set_t |-> points[t].size_on]]
    /\ pc' = "solved"
    /\ UNCHANGED <<ccs, handle, runs, tec_data, big_m_transformation_required, clustered_data,
                   nr_timesteps_averaged, b_tec>>

(* storage technologies: the assignment covers timestep t and the timestep *)
(* before it on the ring, whose level the storage level calculation reads  *)

\* the timestep whose level the calculation at t reads, and the one after t
RingPrev(set_t, t) == IF t = 1 THEN MaxT(set_t) ELSE t - 1
RingNext(set_t, t) == IF t = MaxT(set_t) THEN 1 ELSE t + 1

\* candidate levels and flows of a storage assignment
LevelGrid(td) == {Rat(k * td.size_max, LevelSteps) : k \in 0 .. LevelSteps}
RateGrid(td, rate) ==
    {RMulN(Rat(k * td.size_max, RateSteps), rate) : k \in 0 .. RateSteps}

solve_stor ==
    /\ pc = "built"
    /\ b_tec.builder = "STOR"
    /\ \E size \in SizeDomain(tec_data), t \in b_tec.set_t,
          indicator \in [b_tec.s_indicators -> {0, 1}],
          input \in [b_tec.set_input_carriers ->
                        RateGrid(tec_data, tec_data.fitted_performance.charge_max)],
          output \in [b_tec.set_input_carriers ->
                        RateGrid(tec_data, tec_data.fitted_performance.discharge_max)] :
        /\ STOR_feasible_flows(b_tec, [var_size |-> size, indicator |-> indicator,
                                       input |-> input, output |-> output])
        /\ \E before \in [b_tec.set_input_carriers -> LevelGrid(tec_data)] :
            LET s0 == [t |-> t, var_size |-> size, indicator |-> indicator,
                       input |-> input, output |-> output,
                       level |-> (RingPrev(b_tec.set_t, t) :> before)]
                s == [s0 EXCEPT !.level =
                        (t :> [car \in b_tec.set_input_carriers |->
                                    STOR_storage_level_rhs(b_tec, s0, t, car)])
                        @@ s0.level]
            IN /\ STOR_feasible(b_tec, s)
               /\ sol' = s
    /\ pc' = "solved"
    /\ UNCHANGED <<ccs, handle, runs, tec_data, big_m_transformation_required, clustered_data,
                   nr_timesteps_averaged, b_tec>>

\* candidate flows and powers of an ocean battery assignment
OceanFlowGrid == {Rat(3 * k, 10) : k \in 0 .. MaxOceanFlow}
OceanPowerGrid == {Rat(k, 10) : k \in 0 .. MaxOceanPower}

solve_ocean_storage ==
    /\ pc = "built"
    /\ b_tec.builder = "OceanBattery3"
    /\ \E size \in SizeDomain(tec_data), t \in b_tec.set_t,
          total_inflow \in OceanFlowGrid, total_outflow \in OceanFlowGrid,
          before \in LevelGrid(tec_data) :
            LET s0 == [view |-> "storage", t |-> t, var_size |-> size,
                       total_inflow |-> total_inflow, total_outflow |-> total_outflow,
                       level |-> (RingPrev(b_tec.set_t, t) :> before)]
                s == [s0 EXCEPT !.level =
                        (t :> Ocean_storage_level_rhs(b_tec, s0, t)) @@ s0.level]
            IN /\ Ocean_feasible_storage(b_tec, s)
               /\ sol' = s
    /\ pc' = "solved"
    /\ UNCHANGED <<ccs, handle, runs, tec_data, big_m_transformation_required, clustered_data,
                   nr_timesteps_averaged, b_tec>>

\* the flow, power and on/off indicators a slot may take at t, given the
\* design, the install indicators and the capex of s
Ocean_slot_points(b, s, t) ==
    {c \in [flow : OceanFlowGrid, power : {RMulN(m, p) : m \in {One, Rat(23, 10), Rat(18, 10)},
                                 p \in OceanPowerGrid},
            onoff : [Ocean_kind(b, s.kind).s_indicators_onoff -> {0, 1}]] :
        Ocean_feasible_slot_at(b, [kind |-> s.kind, designflow |-> s.designflow,
                                   designpower |-> s.designpower,
                                   install_indicator |-> s.install_indicator,
                                   flow |-> (t :> c.flow), power |-> (t :> c.power),
                                   onoff |-> (t :> c.onoff)], t)}

\* the install indicators and the capex the other slots of the kind of s
\* may take: they share the design of s
Ocean_peer_points(b, s) ==
    {c \in [install_indicator : [PyRange(2) -> {0, 1}],
            capex : {RMulN(Ocean_kind(b, s.kind).capex[1], f) : f \in OceanFlowGrid}] :
        Ocean_feasible_install(b, [s EXCEPT !.install_indicator = c.install_indicator,
                                            !.capex = c.capex])}

solve_ocean_slot ==
    /\ pc = "built"
    /\ b_tec.builder = "OceanBattery3"
    /\ \E kind \in {"turbine", "pump"} :
        \E slot \in Ocean_kind(b_tec, kind).slots,
           designflow \in OceanFlowGrid, designpower \in OceanPowerGrid,
           design_indicator \in
                [Ocean_kind(b_tec, kind).s_indicators_design -> {0, 1}] :
          LET d == [kind |-> kind, slot |-> slot, designflow |-> designflow,
                    designpower |-> designpower, design_indicator |-> design_indicator]
          IN /\ Ocean_feasible_design(b_tec, d)
             /\ \E install_indicator \in [PyRange(2) -> {0, 1}],
                   capex \in {RMulN(Ocean_kind(b_tec, kind).capex[1], f) :
                                f \in OceanFlowGrid} :
                  LET i == [kind |-> kind, designflow |-> designflow,
                            designpower |-> designpower,
                            install_indicator |-> install_indicator, capex |-> capex]
                      at == [t \in b_tec.set_t |-> Ocean_slot_points(b_tec, i, t)]
                  IN /\ Ocean_feasible_install(b_tec, i)
                     /\ \E points \in [b_tec.set_t -> UNION {at[t] : t \in b_tec.set_t}],
                           peers \in [Ocean_kind(b_tec, kind).slots \ {slot} ->
                                        Ocean_peer_points(b_tec, i)] :
                          /\ \A t \in b_tec.set_t : points[t] \in at[t]
                          /\ sol' = [view |-> "slot", kind |-> kind, slot |-> slot,
                                     designflow |-> designflow, designpower |-> designpower,
                                     design_indicator |-> design_indicator,
                                     install_indicator |-> install_indicator,
                                     capex |-> capex, peers |-> peers,
                                     flow |-> [t \in b_tec.set_t |-> points[t].flow],
                                     power |-> [t \in b_tec.set_t |-> points[t].power],
                                     onoff |-> [t \in b_tec.set_t |-> points[t].onoff]]
    /\ pc' = "solved"
    /\ UNCHANGED <<ccs, handle, runs, tec_data, big_m_transformation_required, clustered_data,
                   nr_timesteps_averaged, b_tec>>


(* the ring walk: with no charging and no discharging the storage level    *)
(* calculation fixes every level from a start level at a start timestep;   *)
(* the walk steps it once around the horizon, back to the start timestep,  *)
(* and records whether every level it met was within the block's bounds    *)

\* the level at t that the storage level calculation gives from the level
\* before it when nothing flows
idle_level(b, t, before) ==
    IF b.builder = "STOR"
    THEN LET car == CHOOSE c \in b.set_input_carriers : TRUE
         IN STOR_storage_level_rhs(b,
                [level |-> (RingPrev(b.set_t, t) :> [c \in b.set_input_carriers |-> before]),
                 input |-> [c \in b.set_input_carriers |-> Zero],
                 output |-> [c \in b.set_input_carriers |-> Zero]], t, car)
    ELSE Ocean_storage_level_rhs(b,
                [level |-> (RingPrev(b.set_t, t) :> before),
                 total_inflow |-> Zero, total_outflow |-> Zero], t)

\* the bounds and size constraints of the block on a level at t
level_within_bounds(b, size, t, level) ==
    IF b.builder = "STOR"
    THEN STOR_feasible_levels(b, [var_size |-> size,
                                  level |-> (t :> [c \in b.set_input_carriers |-> level])])
    ELSE Ocean_feasible_levels(b, [var_size |-> size, level |-> (t :> level)])

ring_start ==
    /\ pc = "built"
    /\ b_tec.builder \in {"STOR", "OceanBattery3"}
    /\ \E size \in SizeDomain(tec_data), t \in b_tec.set_t, level \in LevelGrid(tec_data) :
        /\ level_within_bounds(b_tec, size, t, level)
        /\ sol' = [var_size |-> size, start |-> t, start_level |-> level,
                   t |-> t, level |-> level, steps |-> 0, within |-> TRUE]
    /\ pc' = "walking"
    /\ UNCHANGED <<ccs, handle, runs, tec_data, big_m_transformation_required, clustered_data,
                   nr_timesteps_averaged, b_tec>>

ring_step ==
    /\ pc = "walking"
    /\ LET t == RingNext(b_tec.set_t, sol.t)
           level == idle_level(b_tec, t, sol.level)
       IN /\ sol' = [sol EXCEPT !.t = t, !.level = level, !.steps = @ + 1,
                                 !.within = @ /\ level_within_bounds(b_tec, sol.var_size, t, level)]
          /\ pc' = IF sol.steps + 1 = Cardinality(b_tec.set_t) THEN "walked" ELSE "walking"
    /\ UNCHANGED <<ccs, handle, runs, tec_data, big_m_transformation_required, clustered_data,
                   nr_timesteps_averaged, b_tec>>

----------------------------------------------------------------------------
(* fit_ccs_data (ccs.py); strings that the code searches are sequences of  *)
(* characters                                                              *)

\* sub in s
str_contains_chars(sub, s) ==
    \A i \in 1 .. Len(sub) : \E j \in 1 .. Len(s) : s[j] = sub[i]

str_contains(sub, s) ==
    \E i \in 1 .. Len(s) - Len(sub) + 1 : SubSeq(s, i, i + Len(sub) - 1) = sub

\* the technology file open_json reads for ccs_type: the MEA files differ
\* in their size limits and coefficients, the heat of "MEA" does not depend
\* on the concentration-free term (eta = 0)
open_json(ccs_type) ==
    LET file(size_min, size_max, capture_rate, eta, omega) ==
            [size_min |-> size_min, size_max |-> size_max,
             TechnologyPerf |->
                [capture_rate |-> capture_rate,
                 input_carrier |-> {"electricity", "heat"},
                 output_carrier |-> {"CO2captured"},
                 eta |-> [car \in {"electricity", "heat"} |->
                            IF car = "heat" THEN eta[2] ELSE eta[1]],
                 omega |-> [car \in {"electricity", "heat"} |->
                            IF car = "heat" THEN omega[2] ELSE omega[1]]]]
    IN CASE ccs_type = <<"M", "E", "A">> ->
                file(Zero, Rat(10, 1), Rat(9, 10), <<Rat(1, 2), Zero>>, <<One, Rat(3, 1)>>)
         [] ccs_type = <<"M", "E", "A", "_", "l">> ->
                file(Rat(2, 1), Rat(20, 1), Rat(19, 20), <<Rat(1, 4), Rat(1, 5)>>,
                     <<Rat(1, 2), Rat(2, 1)>>)
         [] ccs_type = <<"P", "_", "M", "E", "A">> ->
                file(One, Rat(5, 1), Rat(4, 5), <<One, One>>, <<Zero, One>>)
         [] OTHER ->
                file(One, Rat(4, 1), Rat(1, 2), <<One, Rat(1, 2)>>, <<One, One>>)

\* the ccs_type of the technologies that use a capture unit
CcsTypes ==
    {<<"M", "E", "A">>, <<"M", "E", "A", "_", "l">>, <<"P", "_", "M", "E", "A">>,
     <<"D", "A", "C">>, <<"A", "M", "E">>, <<"m", "e", "a">>}

\* co2_concentration of the flue gas
Concentrations == {Rat(1, 10), Rat(1, 2), One}

\* a size limit multiplied twice
fit_ccs_rescale_twice(size, co2_concentration) ==
    RMulN(RMulN(size, co2_concentration), co2_concentration)

\* tec_data["size_min"] * co2_concentration
fit_ccs_rescale(size, co2_concentration) == RMulN(size, co2_concentration)

\* (eta[car] + omega[car] * co2_concentration)
\*      / (co2_concentration * molar_mass_CO2 * 3.6), molar_mass_CO2 = 44.01
fit_ccs_input_ratio(perf, car, co2_concentration) ==
    RDivN(RAddN(perf.eta[car], RMulN(perf.omega[car], co2_concentration)),
          RMulN(RMulN(co2_concentration, Rat(4401, 100)), Rat(36, 10)))

\* what a call of fit_ccs_data(ccs_data, data) gives: the exception it
\* raises, or the tec_data it returns
fit_ccs_result(ccs_data, time_steps) ==
    LET tec_data0 == open_json(ccs_data.ccs_type)
        perf == tec_data0.TechnologyPerf
        input_ratios == [car \in perf.input_carrier |->
                            fit_ccs_input_ratio(perf, car, ccs_data.co2_concentration)]
    IN IF str_contains(<<"M", "E", "A">>, ccs_data.ccs_type)
       THEN [raised |-> FALSE,
             tec_data |->
                [size_min |-> fit_ccs_rescale(tec_data0.size_min, ccs_data.co2_concentration),
                 size_max |-> fit_ccs_rescale(tec_data0.size_max, ccs_data.co2_concentration),
                 TechnologyPerf |->
                    [capture_rate |-> perf.capture_rate,
                     input_carrier |-> perf.input_carrier,
                     output_carrier |-> perf.output_carrier,
                     eta |-> perf.eta, omega |-> perf.omega,
                     input_ratios |-> input_ratios,
                     bounds |->
                        [input |-> [car \in perf.input_carrier |->
                                        [t \in 1 .. time_steps |-> <<Zero, input_ratios[car]>>]],
                         output |-> [car \in perf.output_carrier |->
                                        [t \in 1 .. time_steps |->
                                            <<Zero, perf.capture_rate>>]]]]]]
       ELSE [raised |-> TRUE, tec_data |-> <<>>]

\* no call of fit_ccs_data yet
NoCalls == [time_steps |-> 1, calls |-> <<>>]

fit_ccs_data ==
    /\ Len(ccs.calls) < MaxCalls
    /\ \E ccs_type \in CcsTypes, co2_concentration \in Concentrations :
        LET ccs_data == [ccs_type |-> ccs_type, co2_concentration |-> co2_concentration]
        IN ccs' = [ccs EXCEPT !.calls =
                        Append(@, [ccs_data |-> ccs_data,
                                   result |-> fit_ccs_result(ccs_data, ccs.time_steps)])]
    /\ UNCHANGED <<tec_data, big_m_transformation_required, clustered_data,
                   nr_timesteps_averaged, b_tec, sol, runs, handle, pc>>

----------------------------------------------------------------------------
(* DataHandle and ClusteredDataHandle (handle_input_data.py) *)

\* no DataHandle
NoHandle == [status |-> "none"]

\* comp.Technology(technology) after fit_technology_performance: the
\* technology file gives the model, and a capacity factor over two days of
\* two intervals to the renewables
Technology(technology) ==
    [name |-> technology,
     technology_model |->
        IF technology \in {"PV", "WT"} THEN "RES"
        ELSE IF technology = "Boiler" THEN "CONV1" ELSE "STOR",
     fitted_performance |->
        IF technology = "PV" THEN [capacity_factor |-> <<Zero, One, Rat(1, 2), Rat(1, 2)>>]
        ELSE IF technology = "WT" THEN [capacity_factor |-> <<One, One, Zero, Rat(1, 2)>>]
        ELSE [rated_power |-> One]]

\* container[key] for a key that is a name: a list cannot be indexed by a
\* name, a dict gives the value of a key it holds
py_getitem(container, key) ==
    IF container.kind = "list" THEN [raised |-> "TypeError"]
    ELSE IF key \in DOMAIN container.value
         THEN [raised |-> "", value |-> container.value[key]]
         ELSE [raised |-> "KeyError"]

\* dict[key] = value on a dict that keeps its keys in insertion order
py_setitem(dict, key, value) ==
    [keys |-> IF key \in DOMAIN dict.value THEN dict.keys ELSE Append(dict.keys, key),
     value |-> (key :> value) @@ dict.value]

\* the topologies a DataHandle is made for: one or two nodes, at each node
\* the new technologies in their order (a list of names or a dict by name)
\* and the existing technologies with their sizes
Topologies ==
    LET names == {"PV", "WT", "Boiler", "Storage"}
        lists == {l \in UNION {[1 .. k -> names] : k \in 0 .. MaxTecs} :
                    \A i, j \in DOMAIN l : i # j => l[i] # l[j]}
        new == {[kind |-> "list", keys |-> l, value |-> <<>>] : l \in lists}
               \cup {[kind |-> "dict", keys |-> l, value |-> [n \in {l[i] : i \in DOMAIN l} |-> 1]] :
                        l \in lists}
        existing == {[keys |-> <<>>, value |-> <<>>],
                     [keys |-> <<"PV">>, value |-> [n \in {"PV"} |-> 5]],
                     [keys |-> <<"Boiler">>, value |-> [n \in {"Boiler"} |-> 3]]}
        nodes == {<<"onshore">>, <<"onshore", "offshore">>}
    IN UNION {[nodes : {ns},
               technologies_new : [{ns[i] : i \in DOMAIN ns} -> new],
               technologies_existing : [{ns[i] : i \in DOMAIN ns} -> existing]] : ns \in nodes}

\* the loop over the existing technologies of a node, from the i-th on
RECURSIVE read_existing(_, _, _, _)
read_existing(tecs, new, existing, i) ==
    IF i > Len(existing.keys) THEN [raised |-> "", tecs |-> tecs]
    ELSE LET technology == existing.keys[i]
             made == [existing |-> 1] @@ Technology(technology)
             size == py_getitem(new, technology)
         IN IF size.raised # ""
            THEN [raised |-> size.raised, tecs |-> py_setitem(tecs, technology, made)]
            ELSE read_existing(
                    py_setitem(tecs, technology, [size_initial |-> size.value] @@ made),
                    new, existing, i + 1)

\* the loop over the nodes, from the i-th on
RECURSIVE read_nodes(_, _, _)
read_nodes(technology_data, topology, i) ==
    IF i > Len(topology.nodes) THEN [raised |-> "", technology_data |-> technology_data]
    ELSE LET node == topology.nodes[i]
             new == topology.technologies_new[node]
             read == read_existing(
                        [keys |-> new.keys,
                         value |-> [n \in {new.keys[k] : k \in DOMAIN new.keys} |->
                                        Technology(n)]],
                        new, topology.technologies_existing[node], 1)
             data == (node :> read.tecs) @@ technology_data
         IN IF read.raised # ""
            THEN [raised |-> read.raised, technology_data |-> data]
            ELSE read_nodes(data, topology, i + 1)

read_technology_data ==
    /\ handle.status = "init"
    /\ LET read == read_nodes(<<>>, handle.topology, 1)
       IN handle' = [handle EXCEPT !.technology_data = read.technology_data,
                                   !.status = IF read.raised = "" THEN "read" ELSE read.raised]
    /\ UNCHANGED <<tec_data, big_m_transformation_required, clustered_data,
                   nr_timesteps_averaged, b_tec, sol, runs, ccs, pc>>

\* tecs_flagged_for_clustering[node] after the loop over the technologies
\* of the node, from the i-th on
RECURSIVE flag_technologies(_, _, _)
flag_technologies(flagged, tecs, i) ==
    IF i > Len(tecs.keys) THEN flagged
    ELSE flag_technologies(
            IF tecs.value[tecs.keys[i]].technology_model = "RES" THEN {tecs.keys[i]} ELSE {},
            tecs, i + 1)

\* the centre of the single cluster of a series of nr_days days of
\* nr_time_intervals_per_day values: the mean day
cluster_centers(series, nr_days, nr_time_intervals_per_day) ==
    [h \in 1 .. nr_time_intervals_per_day |->
        RDivN(RSum([day \in 1 .. nr_days |->
                        series[(day - 1) * nr_time_intervals_per_day + h]], 1 .. nr_days),
              Rat(nr_days, 1))]

\* cluster_data(1, 2, 2)
cluster_data ==
    /\ handle.status = "read"
    /\ LET flagged == [node \in DOMAIN handle.technology_data |->
                            flag_technologies({}, handle.technology_data[node], 1)]
       IN handle' =
            [handle EXCEPT
                !.status = "clustered",
                !.tecs_flagged_for_clustering = flagged,
                !.technology_data =
                    [node \in DOMAIN handle.technology_data |->
                        [handle.technology_data[node] EXCEPT !.value =
                            [tec \in DOMAIN @ |->
                                IF tec \in flagged[node]
                                THEN [@[tec] EXCEPT !.fitted_performance.capacity_factor =
                                            cluster_centers(@, 2, 2)]
                                ELSE @[tec]]]]]
    /\ UNCHANGED <<tec_data, big_m_transformation_required, clustered_data,
                   nr_timesteps_averaged, b_tec, sol, runs, ccs, pc>>

----------------------------------------------------------------------------

\* the numbers of averaged timesteps a technology is built with: storage
\* technologies with any, unless the self-discharge has a long denominator
AveragedDomain(td) ==
    IF td.technology_model \in {"STOR", "OceanBattery3"}
    THEN IF td.technology_model = "STOR" /\ td.fitted_performance.lambda.d > 10
         THEN {1} ELSE 1 .. MaxAveraged
    ELSE {1}

\* the horizons a technology is built with: the renewable and the storage
\* builders index by the full horizon whatever the flag says
ClusteredDomain(td) ==
    IF td.technology_model \in {"RES", "STOR", "OceanBattery3"} THEN {0} ELSE {0, 1}

Init ==
    /\ tec_data \in {TecDescriptors[i] : i \in DOMAIN TecDescriptors}
    /\ big_m_transformation_required = 0
    /\ clustered_data \in ClusteredDomain(tec_data)
    /\ nr_timesteps_averaged \in AveragedDomain(tec_data)
    /\ b_tec = EmptyBlock
    /\ sol = NoSolution
    /\ runs = << <<>> >>
    /\ ccs = NoCalls
    /\ handle = NoHandle
    /\ pc = "construct"

Next ==
    \/ constraints_tec_RES
    \/ constraints_tec_CONV1
    \/ constraints_tec_CONV2
    \/ constraints_tec_CONV3
    \/ constraints_tec_STOR
    \/ construct_tech_model
    \/ solve_res
    \/ solve_conv
    \/ solve_stor
    \/ solve_ocean_storage
    \/ solve_ocean_slot
    \/ ring_start
    \/ ring_step

Spec == Init /\ [][Next]_vars

(* several technologies built in one run of the process, and the same      *)
(* technologies built again, in any order, in a second run                 *)

\* the technologies the calls of a run were made for
run_technologies(run) == {run[i].tec_data : i \in DOMAIN run}

\* the builder of the last technology has returned and the run goes on to
\* another technology: any in the first run, one of the first run's in the
\* second
next_technology ==
    /\ pc = "built"
    /\ Len(runs[Len(runs)]) < MaxCalls
    /\ \E td \in {TecDescriptors[i] : i \in DOMAIN TecDescriptors}
                \ run_technologies(runs[Len(runs)]) :
        /\ td.technology_model \in {"STOR", "OceanBattery3"} =>
                nr_timesteps_averaged \in AveragedDomain(td)
        /\ Len(runs) = 2 => td \in run_technologies(runs[1])
        /\ tec_data' = td
    /\ b_tec' = EmptyBlock
    /\ sol' = NoSolution
    /\ pc' = "construct"
    /\ UNCHANGED <<big_m_transformation_required, clustered_data, nr_timesteps_averaged,
                   runs, ccs, handle>>

\* the process is started again with the same globals to build the
\* technologies of the first run
new_run ==
    /\ pc = "built"
    /\ Len(runs) = 1
    /\ Len(runs[1]) >= 2
    /\ tec_data' \in run_technologies(runs[1])
    /\ big_m_transformation_required' = 0
    /\ runs' = Append(runs, <<>>)
    /\ b_tec' = EmptyBlock
    /\ sol' = NoSolution
    /\ pc' = "construct"
    /\ UNCHANGED <<clustered_data, nr_timesteps_averaged, ccs, handle>>

NextSeq ==
    \/ constraints_tec_RES
    \/ constraints_tec_CONV1
    \/ constraints_tec_CONV2
    \/ constraints_tec_CONV3
    \/ constraints_tec_STOR
    \/ construct_tech_model
    \/ next_technology
    \/ new_run

SpecSeq == Init /\ [][NextSeq]_vars

----------------------------------------------------------------------------
(* Data management: the calls that prepare the technology data, before any *)
(* builder runs                                                            *)

\* calls of fit_ccs_data for a horizon of 1..NTimesteps timesteps
InitCcs ==
    /\ tec_data = TecDescriptors[1]
    /\ big_m_transformation_required = 0
    /\ clustered_data = 0
    /\ nr_timesteps_averaged = 1
    /\ b_tec = EmptyBlock
    /\ sol = NoSolution
    /\ runs = << <<>> >>
    /\ ccs \in [time_steps : 1 .. NTimesteps, calls : {<<>>}]
    /\ handle = NoHandle
    /\ pc = "construct"

SpecCcs == InitCcs /\ [][fit_ccs_data]_vars

\* a DataHandle made for a topology, then read and clustered
InitData ==
    /\ tec_data = TecDescriptors[1]
    /\ big_m_transformation_required = 0
    /\ clustered_data = 0
    /\ nr_timesteps_averaged = 1
    /\ b_tec = EmptyBlock
    /\ sol = NoSolution
    /\ runs = << <<>> >>
    /\ ccs = NoCalls
    /\ handle \in [status : {"init"}, topology : Topologies,
                   technology_data : {<<>>}, tecs_flagged_for_clustering : {<<>>}]
    /\ pc = "construct"

NextData ==
    \/ read_technology_data
    \/ cluster_data

SpecData == InitData /\ [][NextData]_vars

----------------------------------------------------------------------------
(* Properties of the conversion builders *)

\* what the descriptor says, read independently of the block
Desc_pft == tec_data.performance_data.performance_function_type
Desc_rated_power ==
    IF tec_data.size_is_int THEN tec_data.fitted_performance.rated_power ELSE One
Desc_min_part_load ==
    IF "min_part_load" \in DOMAIN tec_data.performance_data
    THEN tec_data.performance_data.min_part_load ELSE Zero
Desc_bp_x == tec_data.fitted_performance.bp_x
Desc_inputs == tec_data.performance_data.input_carrier
Desc_outputs == tec_data.performance_data.output_carrier
IsConv == tec_data.technology_model \in {"CONV1", "CONV2", "CONV3"}
SolvedConv == pc = "solved" /\ IsConv

\* total input and output of the returned assignment, size * rated_power
Sol_sum_input == RSum(sol.input, Desc_inputs)
Sol_sum_output == RSum(sol.output, Desc_outputs)
Sol_size_rated == RMul(sol.var_size, Desc_rated_power)

\* the input that drives the outputs: the sum of the inputs for CONV1 and
\* CONV2, the main carrier's input for CONV3
Sol_driving_input ==
    IF tec_data.technology_model = "CONV3"
    THEN sol.input[tec_data.performance_data.main_input_carrier]
    ELSE Sol_sum_input

\* every input and every output of the returned assignment is 0
Sol_all_zero ==
    /\ \A c \in Desc_inputs : sol.input[c] = Zero
    /\ \A c \in Desc_outputs : sol.output[c] = Zero

\* the fitted coefficients of regime seg: scalars when seg = 0 (linear
\* with minimal part load), entry seg of the per-segment lists otherwise
Coef_alpha1(f, seg) == IF seg = 0 THEN f.alpha1 ELSE f.alpha1[seg]
Coef_alpha2(f, seg) == IF seg = 0 THEN f.alpha2 ELSE f.alpha2[seg]

\* the output relation alpha1 * driving input + alpha2 * size * rated_power
\* with the coefficients of regime seg
Sol_output_follows(seg) ==
    IF tec_data.technology_model = "CONV1"
    THEN REq(Sol_sum_output,
             RAdd(RMul(Coef_alpha1(tec_data.fitted_performance.out, seg), Sol_driving_input),
                  RMul(Coef_alpha2(tec_data.fitted_performance.out, seg), Sol_size_rated)))
    ELSE \A c \in Desc_outputs :
            REq(sol.output[c],
                RAdd(RMul(Coef_alpha1(tec_data.fitted_performance[c], seg), Sol_driving_input),
                     RMul(Coef_alpha2(tec_data.fitted_performance[c], seg), Sol_size_rated)))

\* C1: in the scenario alpha1 = 1.2, alpha2 = -0.1, min_part_load = 0.2,
\* size = 5, rated_power = 1 of constraints_tec_CONV1, no feasible point has
\* 0 < sum(input) < 1.0 and every feasible point with sum(input) = 2 has
\* sum(output) = 2.3.
C1_Scenario ==
    (pc = "solved" /\ tec_data = Tec_CONV1_minload) =>
        /\ ~(RLt(Zero, Sol_sum_input) /\ RLt(Sol_sum_input, One))
        /\ REq(Sol_sum_input, Rat(2, 1)) => REq(Sol_sum_output, Rat(23, 10))

\* C6: with performance_function_type 2, the off regime forces every input
\* and output to 0; the on regime gives output = alpha1 * input + alpha2 *
\* size * rated_power and a driving input of at least min_part_load * size *
\* rated_power, min_part_load being the descriptor's field.
C6_MinPartLoadRegimes ==
    (SolvedConv /\ Desc_pft = 2) =>
        /\ sol.indicator[0] = 1 => Sol_all_zero
        /\ sol.indicator[1] = 1 =>
            /\ Sol_output_follows(0)
            /\ RGe(Sol_driving_input, RMul(Desc_min_part_load, Sol_size_rated))

\* the number k of fitted segments and the segment regimes 1..k
Desc_nr_segments == Len(Desc_bp_x) - 1
Desc_segments == 1 .. Desc_nr_segments

\* breakpoint bp[i] of the fit, i in 0..k
Desc_bp(i) == Desc_bp_x[i + 1]

\* the domain constraints of segment regime i on the returned assignment
Sol_in_segment_domain(i) ==
    /\ RGe(Sol_driving_input, RMul(Desc_bp(i - 1), Sol_size_rated))
    /\ RLe(Sol_driving_input, RMul(Desc_bp(i), Sol_size_rated))

\* C7: with performance_function_type 3 and k fitted segments each timestep
\* has exactly the regimes 0..k: regime 0 forces every input and output to 0,
\* and segment regime i in 1..k requires bp[i-1] * size * rated_power <=
\* driving input <= bp[i] * size * rated_power and output = alpha1[i-1] *
\* input + alpha2[i-1] * size * rated_power.
C7_PiecewiseRegimes ==
    (IsConv /\ Desc_pft = 3 /\ pc \in {"built", "solved"}) =>
        /\ b_tec.s_indicators = 0 .. Desc_nr_segments
        /\ Cardinality(b_tec.s_indicators) = Desc_nr_segments + 1
        /\ pc = "solved" =>
            /\ DOMAIN sol.indicator = 0 .. Desc_nr_segments
            /\ sol.indicator[0] = 1 => Sol_all_zero
            /\ \A i \in Desc_segments :
                sol.indicator[i] = 1 =>
                    /\ Sol_in_segment_domain(i)
                    /\ Sol_output_follows(i)

\* a piecewise technology runs in its last segment with a positive input
C7_Witness ==
    /\ SolvedConv /\ Desc_pft = 3
    /\ sol.indicator[Desc_nr_segments] = 1
    /\ RLt(Zero, Sol_driving_input)

\* the returned driving input lies exactly on interior breakpoint bp[i]
Sol_on_breakpoint(i) == REq(Sol_driving_input, RMul(Desc_bp(i), Sol_size_rated))

\* the domain constraints the builder put into the disjunct of regime j
Sol_disjunct_domain(j) ==
    CONV_init_input_on1(b_tec, sol, j) /\ CONV_init_input_on2(b_tec, sol, j)

\* the segment regimes whose domain constraints the returned input satisfies
Sol_segments_admitting == {j \in Desc_segments : Sol_disjunct_domain(j)}

\* C8 as stated: segment domains are half-open, so a driving input exactly
\* on an interior breakpoint bp[i] * size * rated_power satisfies the domain
\* constraints of the one segment whose lower bound is bp[i].
C8_HalfOpenSegments ==
    (SolvedConv /\ Desc_pft = 3) =>
        \A i \in 1 .. (Desc_nr_segments - 1) :
            Sol_on_breakpoint(i) => Sol_segments_admitting = {i + 1}

\* C8 amended: segment domains are closed, so for size * rated_power > 0 a
\* driving input exactly on an interior breakpoint bp[i] * size * rated_power
\* satisfies the domain constraints of both adjoining segments, i and i + 1,
\* and of no other.
C8_ClosedSegments ==
    (SolvedConv /\ Desc_pft = 3 /\ RLt(Zero, Sol_size_rated)) =>
        \A i \in 1 .. (Desc_nr_segments - 1) :
            Sol_on_breakpoint(i) => Sol_segments_admitting = {i, i + 1}

\* a three-segment technology of positive size runs exactly on its second
\* interior breakpoint, in the segment below it
C8_Witness ==
    /\ SolvedConv /\ Desc_pft = 3 /\ Desc_nr_segments = 3
    /\ RLt(Zero, Sol_size_rated)
    /\ Sol_on_breakpoint(2)
    /\ sol.indicator[2] = 1

\* C9: in constraints_tec_CONV3 every input carrier other than the main
\* carrier has input = phi[car] * input[main_car] in every feasible
\* assignment, whatever the performance function type and active regime.
C9_FixedInputRatio ==
    (pc = "solved" /\ tec_data.technology_model = "CONV3") =>
        \A car \in Desc_inputs \ {tec_data.performance_data.main_input_carrier} :
            REq(sol.input[car],
                RMul(tec_data.performance_data.input_ratios[car],
                     sol.input[tec_data.performance_data.main_input_carrier]))

\* a fixed-ratio technology runs in an on regime with positive inputs
C9_Witness ==
    /\ pc = "solved" /\ tec_data.technology_model = "CONV3"
    /\ Desc_pft = 2 /\ sol.indicator[1] = 1
    /\ \A car \in Desc_inputs : RLt(Zero, sol.input[car])

\* C10 as stated: for CONV1, CONV2 and CONV3 the sum of the inputs over all
\* input carriers is at most size * rated_power.
C10_TotalInputCapped ==
    SolvedConv => RLe(Sol_sum_input, Sol_size_rated)

\* C10 amended: for CONV1 and CONV2 the sum of the inputs over all input
\* carriers is at most size * rated_power; for CONV3 the main carrier's
\* input is at most size * rated_power.
C10_DrivingInputCapped ==
    SolvedConv => RLe(Sol_driving_input, Sol_size_rated)

\* a technology of positive size runs at its cap
C10_Witness ==
    /\ SolvedConv
    /\ RLt(Zero, Sol_size_rated)
    /\ REq(Sol_driving_input, Sol_size_rated)
    /\ tec_data.technology_model = "CONV2"

----------------------------------------------------------------------------
(* Properties of the storage level calculation *)

SolvedStor == pc = "solved" /\ tec_data.technology_model = "STOR"

\* the storage coefficients of the descriptor
Desc_lambda ==
    IF tec_data.technology_model = "STOR"
    THEN tec_data.fitted_performance.lambda
    ELSE tec_data.fitted_performance.coefficients.lambda
Desc_ambient(t) == tec_data.fitted_performance.ambient_loss_factor[t]
Desc_last == NTimesteps

\* (1 - lambda)^D and sum_{i=0..D-1} (1 - lambda)^i
Desc_kept == RPowN(RSubN(One, Desc_lambda), nr_timesteps_averaged)
Desc_kept_sum == RGeomSumN(RSubN(One, Desc_lambda), nr_timesteps_averaged)

\* (eta_in * input[t] - output[t] / eta_out) * sum_{i=0..D-1} (1 - lambda)^i
Sol_charge_term(car) ==
    RMulN(RSubN(RMulN(tec_data.fitted_performance.eta_in, sol.input[car]),
                RDivN(sol.output[car], tec_data.fitted_performance.eta_out)),
          Desc_kept_sum)

\* the ambient loss of the timesteps other than the first, as built:
\* ambient_loss[t] * ambient_loss[last]^D
Desc_ambient_loss_other(t) ==
    RMulN(Desc_ambient(t), RPowN(Desc_ambient(Desc_last), nr_timesteps_averaged))

\* C2: the storage level constraint of the first timestep is the constraint
\* of the other timesteps with level[t-1] replaced by level[last] and
\* nothing else changed: level[1] = level[last] * (1 - lambda)^D - the other
\* timesteps' ambient loss + the charge term.
C2_FirstTimestepSameRecurrence ==
    (SolvedStor /\ sol.t = 1) =>
        \A car \in StorCarriers :
            REq(sol.level[1][car],
                RAddN(RSubN(RMulN(sol.level[Desc_last][car], Desc_kept),
                            Desc_ambient_loss_other(1)),
                      Sol_charge_term(car)))

\* what size_scale may stand for: one, the size, the largest size, the
\* previous level
Sol_size_scales(car) ==
    {One, sol.var_size, Rat(tec_data.size_max, 1), sol.level[sol.t - 1][car]}

\* C3: at every timestep t other than the first, level[t] = level[t-1] *
\* (1 - lambda)^D - ambient_loss[t] * (1 - lambda)^D * size_scale + (eta_in *
\* input[t] - output[t] / eta_out) * sum_{i=0..D-1} (1 - lambda)^i, for some
\* reading of size_scale.
C3_RecurrenceOtherTimesteps ==
    (SolvedStor /\ sol.t # 1) =>
        \A car \in StorCarriers :
            \E size_scale \in Sol_size_scales(car) :
                REq(sol.level[sol.t][car],
                    RAddN(RSubN(RMulN(sol.level[sol.t - 1][car], Desc_kept),
                                RMulN(RMulN(Desc_ambient(sol.t), Desc_kept), size_scale)),
                          Sol_charge_term(car)))

\* a ring walk has come back to its start timestep
Walked == pc = "walked"

\* C4 as stated: with no input and no output and lambda = 0, stepping the
\* level of constraints_tec_STOR or of the ocean battery once around the
\* horizon from any start timestep returns to the start level.
C4_RingConservation ==
    (Walked /\ Desc_lambda = Zero) =>
        /\ sol.t = sol.start
        /\ REq(sol.level, sol.start_level)

\* every ambient loss factor of the descriptor is 0 (the ocean battery has
\* none)
Desc_no_ambient_loss ==
    tec_data.technology_model = "STOR" =>
        \A t \in set_t_full : Desc_ambient(t) = Zero

\* C4 amended: with no input and no output, lambda = 0 and, for
\* constraints_tec_STOR, an ambient loss factor of 0 at every timestep,
\* stepping the level once around the horizon from any start timestep
\* returns to the start level, and every level met is within bounds.
C4_RingConservationNoAmbientLoss ==
    (Walked /\ Desc_lambda = Zero /\ Desc_no_ambient_loss) =>
        /\ sol.t = sol.start
        /\ REq(sol.level, sol.start_level)
        /\ sol.within

\* a lossless storage has been walked around the horizon from a positive
\* level at a timestep after the first, through the wrap-around
C4_Witness ==
    /\ Walked /\ tec_data.technology_model = "STOR"
    /\ Desc_lambda = Zero /\ Desc_no_ambient_loss
    /\ sol.start > 1
    /\ RLt(Zero, sol.start_level)
    /\ sol.steps = NTimesteps

----------------------------------------------------------------------------
(* Properties of the regime sets *)

\* exactly one indicator of the regime set is 1 and the others are 0
ExactlyOne(indicator) ==
    /\ \A i \in DOMAIN indicator : indicator[i] \in {0, 1}
    /\ Cardinality({i \in DOMAIN indicator : indicator[i] = 1}) = 1

\* the flows of a conversion technology satisfy what the builder put into
\* the disjunct of regime i
Sol_conv_regime(i) ==
    IF i = 0 THEN Sol_all_zero
    ELSE IF Desc_pft = 2
         THEN /\ Sol_output_follows(0)
              /\ RGe(Sol_driving_input, RMul(b_tec.min_part_load, Sol_size_rated))
         ELSE /\ Sol_output_follows(i)
              /\ Sol_disjunct_domain(i)

\* the regime set of a conversion technology at the timestep of sol
Sol_conv_regimes ==
    (SolvedConv /\ Desc_pft \in {2, 3}) =>
        /\ ExactlyOne(sol.indicator)
        /\ \A i \in DOMAIN sol.indicator : sol.indicator[i] = 1 => Sol_conv_regime(i)

\* the charge/discharge regime set of a storage at the timestep of sol
Sol_stor_regimes ==
    (SolvedStor /\ "allow_only_one_direction" \in DOMAIN tec_data.performance_data) =>
        (tec_data.performance_data.allow_only_one_direction = 1 =>
            /\ ExactlyOne(sol.indicator)
            /\ sol.indicator[0] = 1 =>
                    \A car \in tec_data.performance_data.input_carrier : sol.output[car] = Zero
            /\ sol.indicator[1] = 1 =>
                    \A car \in tec_data.performance_data.input_carrier : sol.input[car] = Zero)

\* the solver returned a slot of an ocean battery
SolvedSlot ==
    /\ pc = "solved"
    /\ tec_data.technology_model = "OceanBattery3"
    /\ sol.view = "slot"

\* the slot of sol is installed
Sol_installed == sol.install_indicator[1] = 1

\* annualization factor * unit capex of the slot's kind
Desc_unit_capex ==
    RMulN(tec_data.annualization_factor,
          IF sol.kind = "turbine"
          THEN tec_data.fitted_performance.coefficients.capex_turbines
          ELSE tec_data.fitted_performance.coefficients.capex_pumps)

\* the power of a running slot per unit of design power
Desc_beta1 == IF sol.kind = "turbine" THEN Rat(23, 10) ELSE Rat(18, 10)

\* the slot neither moves water nor takes or gives power at t
Sol_slot_idle(t) == sol.flow[t] = Zero /\ sol.power[t] = Zero

\* the slot runs at t: bp[0] * design flow <= flow <= bp[1] * design flow
\* and its power follows the design power
Sol_slot_running(t) ==
    /\ RGe(sol.flow[t], RMul(Rat(1, 10), sol.designflow))
    /\ RLe(sol.flow[t], sol.designflow)
    /\ REq(sol.power[t], RMul(Desc_beta1, sol.designpower))

\* the on/off regime set of the slot at t
Sol_onoff_regimes(t) ==
    /\ ExactlyOne(sol.onoff[t])
    /\ sol.onoff[t][0] = 1 => Sol_slot_idle(t)
    /\ sol.onoff[t][1] = 1 => Sol_slot_running(t)

\* the install regime set of the slot
Sol_install_regimes ==
    /\ ExactlyOne(sol.install_indicator)
    /\ sol.install_indicator[0] = 1 =>
            /\ \A t \in set_t_full : Sol_slot_idle(t)
            /\ sol.capex = Zero
    /\ Sol_installed => REq(sol.capex, RMul(Desc_unit_capex, sol.designflow))

\* C5 as stated: in every feasible assignment each regime set (on/off and
\* piecewise regimes of CONV1/2/3 per timestep, charge/discharge regimes of
\* STOR per timestep, install regimes of the ocean battery per slot, on/off
\* regimes per slot and timestep) has exactly one indicator equal to 1 and
\* the others 0, and the flows satisfy the active regime's constraints.
C5_ExactlyOneRegime ==
    /\ Sol_conv_regimes
    /\ Sol_stor_regimes
    /\ SolvedSlot =>
        /\ Sol_install_regimes
        /\ \A t \in set_t_full : Sol_onoff_regimes(t)

\* C5 amended: the same, with the on/off regime set per timestep holding
\* for installed slots only: the on/off disjunction is part of the install
\* regime, and a slot that is not installed has no active on/off regime.
C5_ExactlyOneRegimeInstalled ==
    /\ Sol_conv_regimes
    /\ Sol_stor_regimes
    /\ SolvedSlot =>
        /\ Sol_install_regimes
        /\ Sol_installed => \A t \in set_t_full : Sol_onoff_regimes(t)

\* an installed slot runs at one timestep and is off at another
C5_Witness ==
    /\ SolvedSlot /\ Sol_installed
    /\ \E t \in set_t_full : sol.onoff[t][1] = 1 /\ RLt(Zero, sol.flow[t])
    /\ \E t \in set_t_full : sol.onoff[t][0] = 1

----------------------------------------------------------------------------
(* Properties of the renewable builder *)

BuiltRes == pc \in {"built", "solved"} /\ b_tec.builder = "RES"
SolvedRes == pc = "solved" /\ b_tec.builder = "RES"

\* what the descriptor says, read independently of the block
Desc_curtailment_disallowed ==
    \/ "curtailment" \notin DOMAIN tec_data.performance_data
    \/ tec_data.performance_data.curtailment = 0
Desc_capacity_factor(t) == tec_data.fitted_performance.capacity_factor[t]

\* C11: constraints_tec_RES with curtailment == 0 or with no curtailment
\* field: for every timestep t and output carrier c, output[t, c] ==
\* capacity_factor[t] * size * rated_power, and no activation or
\* active-units variables are created; capacity_factor = [0.5, 0.8] and
\* size = 10 give output [5, 8].
C11_NoCurtailment ==
    (BuiltRes /\ Desc_curtailment_disallowed) =>
        /\ b_tec.components \cap {"var_size_on", "const_curtailed_units",
                                  "dis_input_output", "disjunction_input_output"} = {}
        /\ pc = "solved" =>
            /\ \A t \in set_t_full, c \in tec_data.performance_data.output_carrier :
                    REq(sol.output[t][c],
                        RMul(RMul(Desc_capacity_factor(t), sol.var_size), Desc_rated_power))
            /\ tec_data = Tec_RES_scenario =>
                    /\ REq(sol.var_size, Rat(10, 1))
                    /\ REq(sol.output[1]["electricity"], Rat(5, 1))
                    /\ REq(sol.output[2]["electricity"], Rat(8, 1))

\* the scenario's assignment
C11_Witness ==
    /\ SolvedRes
    /\ tec_data = Tec_RES_scenario
    /\ REq(sol.output[1]["electricity"], Rat(5, 1))
    /\ REq(sol.output[2]["electricity"], Rat(8, 1))

Desc_curtailment_discrete ==
    /\ "curtailment" \in DOMAIN tec_data.performance_data
    /\ tec_data.performance_data.curtailment = 2

\* a rational that is a whole number
IsInteger(a) == a.n % a.d = 0

\* the active units of a discrete curtailment: an integer per timestep,
\* at most the size, that fixes the output of every carrier
Sol_active_units ==
    \A t \in set_t_full :
        /\ IsInteger(sol.size_on[t])
        /\ RGe(sol.size_on[t], Zero)
        /\ RLe(sol.size_on[t], sol.var_size)
        /\ \A c \in tec_data.performance_data.output_carrier :
                REq(sol.output[t][c],
                    RMul(RMul(Desc_capacity_factor(t), sol.size_on[t]), Desc_rated_power))

\* C12: constraints_tec_RES with curtailment == 2: the size is
\* integer-valued, each timestep has an integer active-units variable
\* bounded above by size, and output[t, c] == capacity_factor[t] *
\* active_units[t] * rated_power for every output carrier.
C12_DiscreteCurtailment ==
    (BuiltRes /\ Desc_curtailment_discrete) =>
        /\ {"var_size_on", "const_curtailed_units"} \subseteq b_tec.components
        /\ pc = "solved" =>
            /\ IsInteger(sol.var_size)
            /\ Sol_active_units

----------------------------------------------------------------------------
(* Properties of the global flags and of the order of the builder calls *)

\* the calls of the run in progress
ThisRun == runs[Len(runs)]

\* the technology asks for a big-M regime set: CONV1/CONV2/CONV3 with
\* performance function type 2 or 3, STOR with allow_only_one_direction 1
Desc_big_m(td) ==
    \/ /\ td.technology_model \in {"CONV1", "CONV2", "CONV3"}
       /\ td.performance_data.performance_function_type \in {2, 3}
    \/ /\ td.technology_model = "STOR"
       /\ "allow_only_one_direction" \in DOMAIN td.performance_data
       /\ td.performance_data.allow_only_one_direction = 1

\* C13: after any sequence of archetype builder calls starting from
\* big_m_transformation_required = 0, the flag is 1 if and only if at least
\* one call was for a big-M regime set (CONV1/CONV2/CONV3 with performance
\* function type 2 or 3, or STOR with allow_only_one_direction == 1); once
\* set to 1 no builder call sets it back to 0.
C13_FlagRecordsBigM ==
    /\ big_m_transformation_required = 1 <=>
            \E i \in DOMAIN ThisRun : Desc_big_m(ThisRun[i].tec_data)
    /\ \A i, j \in DOMAIN ThisRun :
            (i <= j /\ ThisRun[i].big_m_transformation_required = 1)
                => ThisRun[j].big_m_transformation_required = 1

\* a call for a big-M regime set followed by a call for none, the flag
\* still 1
C13_Witness ==
    /\ Len(ThisRun) = 2
    /\ Desc_big_m(ThisRun[1].tec_data)
    /\ ~Desc_big_m(ThisRun[2].tec_data)
    /\ big_m_transformation_required = 1

\* a step in which an archetype builder is called and returns or fails
BuilderCall == pc = "construct" /\ pc' \in {"built", "failed"}

\* C14 as stated: both global flags (the big-M requirement flag and the
\* clustered-vs-full horizon flag) are established before any archetype
\* builder runs and no builder writes either, so both are unchanged across
\* every builder call.
C14_FlagsUnchanged ==
    [][BuilderCall =>
            /\ big_m_transformation_required' = big_m_transformation_required
            /\ clustered_data' = clustered_data]_vars

\* C14 amended: the clustered-vs-full horizon flag is unchanged across
\* every builder call; the big-M requirement flag is written by the
\* builders, which set it to 1 or leave it as it is and never lower it,
\* and constraints_tec_RES leaves it as it is.
C14_ClusteredUnchanged ==
    [][BuilderCall =>
            /\ clustered_data' = clustered_data
            /\ big_m_transformation_required' \in {big_m_transformation_required, 1}
            /\ tec_data.technology_model = "RES" =>
                    big_m_transformation_required' = big_m_transformation_required]_vars

\* a builder has read the clustered horizon and has written the big-M flag
C14_Witness ==
    /\ pc = "built"
    /\ Len(ThisRun) = 1
    /\ clustered_data = 1
    /\ b_tec.set_t = set_t_clustered
    /\ ThisRun[1].big_m_transformation_required = 1

\* both runs are over: the technologies of the first run have all been
\* built again
BothRunsBuilt ==
    /\ Len(runs) = 2
    /\ pc = "built"
    /\ run_technologies(runs[2]) = run_technologies(runs[1])

\* the constraint set a run ends with for a technology
RunBlock(run, td) == (CHOOSE c \in {run[i] : i \in DOMAIN run} : c.tec_data = td).b_tec

\* the flag a run ends with
RunFlag(run) == run[Len(run)].big_m_transformation_required

\* C15: builder order does not matter: for any set of technologies and any
\* two orders in which their builders are invoked, each technology ends
\* with the same constraint set and the global flags end with the same
\* values; no technology's constraints depend on what was built before it.
C15_OrderIndependent ==
    BothRunsBuilt =>
        /\ \A td \in run_technologies(runs[1]) :
                RunBlock(runs[2], td) = RunBlock(runs[1], td)
        /\ RunFlag(runs[2]) = RunFlag(runs[1])
        /\ big_m_transformation_required = RunFlag(runs[1])

\* two technologies built in one order and then in the other, one of them
\* with a big-M regime set and built last in the first run
C15_Witness ==
    /\ BothRunsBuilt
    /\ Len(runs[1]) = 2
    /\ runs[2][1].tec_data = runs[1][2].tec_data
    /\ ~Desc_big_m(runs[1][1].tec_data)
    /\ Desc_big_m(runs[1][2].tec_data)

----------------------------------------------------------------------------
(* Properties of the builders' errors and warnings *)

\* C16: constraints_tec_CONV3 called for a technology whose performance
\* data has no input_ratios field fails with a fatal configuration error
\* raised at that check: construction of that technology aborts at once,
\* before the builder goes on to the regime constraints.
C16_MissingInputRatiosFatal ==
    (/\ pc # "construct"
     /\ tec_data.technology_model = "CONV3"
     /\ "input_ratios" \notin DOMAIN tec_data.performance_data) =>
        /\ pc = "failed"
        /\ b_tec.error = "ConfigurationError"
        /\ b_tec.warnings = {}
        /\ big_m_transformation_required = 0

\* the regime indicators a performance function type asks for
Desc_s_indicators ==
    IF Desc_pft = 2 THEN 0 .. 1
    ELSE 0 .. (Len(tec_data.fitted_performance.bp_x) - 1)

\* C17: for CONV1, CONV2 and CONV3, a minimal-part-load regime (type 2) or
\* a piecewise regime (type 3) configured with min_part_load equal to 0 or
\* absent emits a non-fatal warning and construction proceeds, producing
\* the full regime set.
C17_ZeroPartLoadWarns ==
    (/\ pc \in {"built", "solved"}
     /\ b_tec.builder \in {"CONV1", "CONV2", "CONV3"}
     /\ Desc_pft \in {2, 3}
     /\ Desc_min_part_load = Zero) =>
        /\ "performance_function_type = 2 with no part-load" \in b_tec.warnings
        /\ b_tec.s_indicators = Desc_s_indicators
        /\ {"dis_input_output", "disjunction_input_output"} \subseteq b_tec.components

----------------------------------------------------------------------------
(* Properties of the storage directions and levels *)

Desc_one_direction ==
    /\ "allow_only_one_direction" \in DOMAIN tec_data.performance_data
    /\ tec_data.performance_data.allow_only_one_direction = 1

\* C18: constraints_tec_STOR with allow_only_one_direction == 1: in every
\* feasible assignment, at every timestep either the output of every
\* carrier is 0 or the input of every carrier is 0; with
\* allow_only_one_direction absent or 0, no disjunction or activation
\* variable is created and the big-M flag is left untouched.
C18_OneDirection ==
    /\ (SolvedStor /\ Desc_one_direction) =>
            \/ \A car \in tec_data.performance_data.input_carrier : sol.output[car] = Zero
            \/ \A car \in tec_data.performance_data.input_carrier : sol.input[car] = Zero
    /\ (b_tec.builder = "STOR" /\ ~Desc_one_direction) =>
            /\ b_tec.components \cap {"dis_input_output", "disjunction_input_output"} = {}
            /\ b_tec.s_indicators = {}
            /\ big_m_transformation_required = 0
            /\ pc = "solved" => DOMAIN sol.indicator = {}

\* a storage with two carriers and one direction charges both at a timestep
C18_Witness ==
    /\ SolvedStor /\ Desc_one_direction
    /\ \A car \in OutputCarriers :
            car \in tec_data.performance_data.input_carrier /\ RLt(Zero, sol.input[car])

\* the solver returned the storage level of an ocean battery
SolvedOceanStorage ==
    /\ pc = "solved"
    /\ tec_data.technology_model = "OceanBattery3"
    /\ sol.view = "storage"

Desc_min_fill == tec_data.fitted_performance.coefficients.min_fill

\* C19: the storage level at every timestep is bounded in [0, size] for
\* constraints_tec_STOR, and in [min_fill * size, size] for OceanBattery3
\* where a minimum-fill fraction is configured.
C19_LevelBounded ==
    /\ SolvedStor =>
            \A t \in DOMAIN sol.level, car \in tec_data.performance_data.input_carrier :
                /\ RGe(sol.level[t][car], Zero)
                /\ RLe(sol.level[t][car], sol.var_size)
    /\ SolvedOceanStorage =>
            \A t \in DOMAIN sol.level :
                /\ RGe(sol.level[t], RMul(Desc_min_fill, sol.var_size))
                /\ RLe(sol.level[t], sol.var_size)

\* a storage smaller than its largest size is charged until it is full
C19_Witness ==
    /\ SolvedStor
    /\ RLt(sol.var_size, Rat(tec_data.size_max, 1))
    /\ \E car \in tec_data.performance_data.input_carrier :
            /\ REq(sol.level[sol.t][car], sol.var_size)
            /\ RLt(Zero, sol.input[car])

\* C20: OceanBattery3: for every pump or turbine slot whose not-installed
\* regime is active, the slot's flow and power are 0 at every timestep of
\* the full horizon and the slot's capex is 0.
C20_NotInstalledIdle ==
    (SolvedSlot /\ sol.install_indicator[0] = 1) =>
        /\ \A t \in set_t_full : sol.flow[t] = Zero /\ sol.power[t] = Zero
        /\ sol.capex = Zero

\* a slot is left out although the single unit has a design flow
C20_Witness ==
    /\ SolvedSlot
    /\ sol.install_indicator[0] = 1
    /\ RLt(Zero, sol.designflow)

----------------------------------------------------------------------------
(* Properties of the ocean battery's slots *)

\* the other slots of the kind of sol that are installed
Sol_installed_peers == {p \in DOMAIN sol.peers : sol.peers[p].install_indicator[1] = 1}

\* C21: OceanBattery3: for every installed slot, capex equals the
\* annualized unit capex of its type times the design flow shared by all
\* slots of that type, so any two installed slots of the same type (pump or
\* turbine) have equal capex.
C21_InstalledCapex ==
    SolvedSlot =>
        /\ Sol_installed => REq(sol.capex, RMul(Desc_unit_capex, sol.designflow))
        /\ \A p \in Sol_installed_peers :
                /\ REq(sol.peers[p].capex, RMul(Desc_unit_capex, sol.designflow))
                /\ Sol_installed => sol.peers[p].capex = sol.capex

\* two slots of one kind are installed and cost something
C21_Witness ==
    /\ SolvedSlot /\ Sol_installed
    /\ Sol_installed_peers # {}
    /\ RLt(Zero, sol.capex)

\* the breakpoints and coefficients of the single segment of the slot's kind
Desc_onoff_bp == <<Rat(1, 10), One>>
Desc_beta2 == Zero

\* the offset (per unit of design power times the design power) plus the
\* slope times the slot's flow at t
Sol_power_of_flow(t) ==
    RAdd(RMul(Desc_beta1, sol.designpower), RMul(Desc_beta2, sol.flow[t]))

\* C22: OceanBattery3: for every installed slot and every timestep, a
\* single-segment on/off regime governs the slot: off gives flow = 0 and
\* power = 0; on gives bp[0] * design_flow <= flow <= bp[1] * design_flow
\* and a power that is a linear-with-offset function of the slot's flow at
\* that timestep.
C22_OnOffRegime ==
    (SolvedSlot /\ Sol_installed) =>
        \A t \in set_t_full :
            /\ DOMAIN sol.onoff[t] = {0, 1}
            /\ sol.onoff[t][0] + sol.onoff[t][1] = 1
            /\ sol.onoff[t][0] = 1 => (sol.flow[t] = Zero /\ sol.power[t] = Zero)
            /\ sol.onoff[t][1] = 1 =>
                    /\ RLe(RMul(Desc_onoff_bp[1], sol.designflow), sol.flow[t])
                    /\ RLe(sol.flow[t], RMul(Desc_onoff_bp[2], sol.designflow))
                    /\ REq(sol.power[t], Sol_power_of_flow(t))

\* an installed slot runs below its design flow at one timestep, at its
\* design flow at another
C22_Witness ==
    /\ SolvedSlot /\ Sol_installed
    /\ \E t \in set_t_full : sol.onoff[t][1] = 1 /\ RLt(sol.flow[t], sol.designflow)
    /\ \E t \in set_t_full : sol.onoff[t][1] = 1 /\ REq(sol.flow[t], sol.designflow)

----------------------------------------------------------------------------
(* Properties of fit_ccs_data *)

\* the ccs_type values that name an MEA capture unit
Desc_mea_types ==
    {<<"M", "E", "A">>, <<"M", "E", "A", "_", "l">>, <<"P", "_", "M", "E", "A">>}

\* the calls of fit_ccs_data so far
Calls == {ccs.calls[i] : i \in DOMAIN ccs.calls}

\* C23: fit_ccs_data called with a ccs_type that does not contain MEA ends
\* in a fatal unsupported-variant error; it never returns technology data
\* and there is no fallback input-ratio or bounds calculation.
C23_NonMeaFatal ==
    \A call \in Calls :
        call.ccs_data.ccs_type \notin Desc_mea_types =>
            /\ call.result.raised
            /\ DOMAIN call.result.tec_data = {}

\* a ccs_type made of the letters of MEA in another order was refused, and
\* an MEA type was fitted
C23_Witness ==
    /\ \E call \in Calls : call.ccs_data.ccs_type = <<"A", "M", "E">> /\ call.result.raised
    /\ \E call \in Calls : call.ccs_data.ccs_type \in Desc_mea_types /\ ~call.result.raised

\* the calls that returned technology data
Returned == {call \in Calls : ~call.result.raised}

\* two calls for the same ccs_type, the first with the smaller concentration
Call_pairs ==
    {p \in Returned \X Returned :
        /\ p[1].ccs_data.ccs_type = p[2].ccs_data.ccs_type
        /\ RLt(p[1].ccs_data.co2_concentration, p[2].ccs_data.co2_concentration)}

\* the size limits of the technology file, as read
Desc_unscaled(call) == open_json(call.ccs_data.ccs_type)

\* the upper operating bound of carrier car at t, input or output
Call_upper(call, side, car, t) == call.result.tec_data.TechnologyPerf.bounds[side][car][t][2]

Call_carriers(call, side) == DOMAIN call.result.tec_data.TechnologyPerf.bounds[side]

Call_timesteps == 1 .. ccs.time_steps

\* the size limits are the unscaled limits times co2_concentration, once
Call_rescaled_once(call) ==
    /\ REq(call.result.tec_data.size_min,
           RMul(Desc_unscaled(call).size_min, call.ccs_data.co2_concentration))
    /\ REq(call.result.tec_data.size_max,
           RMul(Desc_unscaled(call).size_max, call.ccs_data.co2_concentration))
    /\ call.ccs_data.co2_concentration = One =>
            /\ call.result.tec_data.size_min = Desc_unscaled(call).size_min
            /\ call.result.tec_data.size_max = Desc_unscaled(call).size_max

\* C24 as stated: the rescaling is applied exactly once per call, leaves
\* the size limits as they are for co2_concentration = 1, and for positive
\* factors c1 < c2 the rescaled size limits and the upper operating bounds
\* under c1 are strictly smaller than under c2.
C24_StrictlyMonotonic ==
    /\ \A call \in Returned : Call_rescaled_once(call)
    /\ \A p \in Call_pairs :
            /\ RLt(p[1].result.tec_data.size_min, p[2].result.tec_data.size_min)
            /\ RLt(p[1].result.tec_data.size_max, p[2].result.tec_data.size_max)
            /\ \A side \in {"input", "output"}, t \in Call_timesteps :
                    \A car \in Call_carriers(p[1], side) :
                        RLt(Call_upper(p[1], side, car, t), Call_upper(p[2], side, car, t))

\* C24 amended: the rescaling is applied exactly once per call and leaves
\* the size limits as they are for co2_concentration = 1; for positive
\* factors c1 < c2 a rescaled size limit under c1 is strictly smaller than
\* under c2 when the unscaled limit is positive and equal (0) when it is 0;
\* the upper operating bound of an input is not smaller under c1 than under
\* c2 (strictly larger when eta of the carrier is positive), and the upper
\* operating bound of an output is the capture rate under both.
C24_RescaledOnce ==
    /\ \A call \in Returned : Call_rescaled_once(call)
    /\ \A p \in Call_pairs :
            /\ \A limit \in {"size_min", "size_max"} :
                    IF RLt(Zero, Desc_unscaled(p[1])[limit])
                    THEN RLt(p[1].result.tec_data[limit], p[2].result.tec_data[limit])
                    ELSE /\ p[1].result.tec_data[limit] = Zero
                         /\ p[2].result.tec_data[limit] = Zero
            /\ \A t \in Call_timesteps :
                    /\ \A car \in Call_carriers(p[1], "input") :
                            IF RLt(Zero, Desc_unscaled(p[1]).TechnologyPerf.eta[car])
                            THEN RLt(Call_upper(p[2], "input", car, t),
                                     Call_upper(p[1], "input", car, t))
                            ELSE REq(Call_upper(p[2], "input", car, t),
                                     Call_upper(p[1], "input", car, t))
                    /\ \A car \in Call_carriers(p[1], "output") :
                            /\ Call_upper(p[1], "output", car, t)
                                    = Desc_unscaled(p[1]).TechnologyPerf.capture_rate
                            /\ Call_upper(p[2], "output", car, t)
                                    = Desc_unscaled(p[1]).TechnologyPerf.capture_rate

\* a technology with positive size limits was fitted for a concentration
\* below 1 and for the concentration 1
C24_Witness ==
    \E p \in Call_pairs :
        /\ RLt(Zero, Desc_unscaled(p[1]).size_min)
        /\ p[2].ccs_data.co2_concentration = One
        /\ ccs.time_steps > 1

\* the breakpoints of the design of the single pump and the single turbine
Desc_design_bp == <<Rat(1, 10), Rat(9, 10), Rat(12, 10)>>

\* design regime i (counted from 0) admits the design flow of sol
Sol_design_regime_admits(i) ==
    /\ RLe(Desc_design_bp[i + 1], sol.designflow)
    /\ RLe(sol.designflow, Desc_design_bp[i + 2])

\* some design flow satisfies the constraints of design disjunct ind of the
\* block, with the design power its equation gives
Block_design_regime_satisfiable(kind, ind) ==
    \E designflow \in {Rat(k, 10) : k \in 0 .. 12} :
        Ocean_design_dis_init(b_tec,
            [kind |-> kind, designflow |-> designflow,
             designpower |->
                RAdd(PyIndex(Ocean_kind(b_tec, kind).design.alpha1, ind),
                     RMul(PyIndex(Ocean_kind(b_tec, kind).design.alpha2, ind), designflow))],
            ind)

\* C25: OceanBattery3 design disjunction (pump and turbine): for
\* breakpoints [0.1, 0.9, 1.2] there is one regime per segment, regime i
\* restricts the shared design flow to [bp[i], bp[i+1]], every regime is
\* individually satisfiable, and together the regimes cover the whole
\* design-flow domain [0.1, 1.2].
C25_DesignRegimes ==
    /\ SolvedSlot =>
            /\ DOMAIN sol.design_indicator = {0, 1}
            /\ \A i \in {0, 1} : sol.design_indicator[i] = 1 => Sol_design_regime_admits(i)
    /\ (pc = "built" /\ b_tec.builder = "OceanBattery3") =>
            \A kind \in {"turbine", "pump"}, ind \in {0, 1} :
                Block_design_regime_satisfiable(kind, ind)

----------------------------------------------------------------------------
(* Properties of the DataHandle *)

\* the technologies stored at a node
Handle_tecs(node) == DOMAIN handle.technology_data[node].value

\* the mean day of the capacity factor of a renewable technology file
Desc_clustered_series(technology) ==
    IF technology = "PV" THEN <<Rat(1, 4), Rat(3, 4)>> ELSE <<Rat(1, 2), Rat(3, 4)>>

\* C26: ClusteredDataHandle.cluster_data flags every technology whose
\* technology_model is RES at every node, whatever the number and order of
\* technologies at the node, and replaces the capacity factor of each
\* flagged technology with its clustered series; non-RES technologies are
\* never flagged.
C26_RenewablesClustered ==
    handle.status = "clustered" =>
        \A node \in DOMAIN handle.technology_data :
            \A technology \in Handle_tecs(node) :
                LET tec == handle.technology_data[node].value[technology]
                IN /\ technology \in handle.tecs_flagged_for_clustering[node]
                        <=> tec.technology_model = "RES"
                   /\ tec.technology_model = "RES" =>
                        tec.fitted_performance.capacity_factor
                            = Desc_clustered_series(technology)

\* the technologies listed as existing at a node
Desc_existing(node) == handle.topology.technologies_existing[node]

\* C27: DataHandle.read_technology_data: for every node and every
\* technology listed as existing in the topology, the stored technology is
\* marked existing = 1 and its size_initial equals the size recorded for
\* that technology in topology.technologies_existing[node]; this succeeds
\* whether or not the technology is also listed as new.
C27_ExistingSizes ==
    handle.status \notin {"none", "init"} =>
        /\ handle.status \in {"read", "clustered"}
        /\ \A node \in DOMAIN handle.technology_data :
                \A technology \in DOMAIN Desc_existing(node).value :
                    LET tec == handle.technology_data[node].value[technology]
                    IN /\ tec.existing = 1
                       /\ "size_initial" \in DOMAIN tec
                       /\ tec.size_initial = Desc_existing(node).value[technology]

----------------------------------------------------------------------------
(* Properties of the level bounds and of the part load of CONV3 *)

\* an empty storage at t: the level 0 for every carrier
Empty_level(t) == [level |-> (t :> [car \in b_tec.set_input_carriers |-> Zero])]

\* C28: in constraints_tec_STOR the lower bound on the storage level does
\* not depend on the size limits: for any configured size_min and size_max,
\* a level of 0 (empty storage) satisfies the level bounds at every
\* timestep, and size_min restricts only the installed size.  The same for
\* the level of the ocean battery.
C28_EmptyStorageAllowed ==
    /\ (pc = "built" /\ b_tec.builder = "STOR") =>
            \A t \in b_tec.set_t, car \in b_tec.set_input_carriers :
                STOR_var_storage_level(b_tec, Empty_level(t), t, car)
    /\ (pc = "built" /\ b_tec.builder = "OceanBattery3") =>
            \A t \in b_tec.set_t :
                Ocean_var_storage_level(b_tec, [level |-> (t :> Zero)], t)

\* C29: constraints_tec_CONV3 takes min_part_load from the technology
\* descriptor exactly as CONV1 and CONV2 do: for a descriptor with
\* min_part_load = m > 0 and performance_function_type 2 or 3, every
\* on/segment regime enforces input[t, main_car] >= m * size * rated_power,
\* and an absent field defaults to 0.
C29_DescriptorPartLoad ==
    /\ (pc \in {"built", "solved"} /\ IsConv) => b_tec.min_part_load = Desc_min_part_load
    /\ (SolvedConv /\ tec_data.technology_model = "CONV3" /\ Desc_pft \in {2, 3}
        /\ sol.indicator[0] = 0) =>
            RGe(sol.input[tec_data.performance_data.main_input_carrier],
                RMul(Desc_min_part_load, Sol_size_rated))

\* the capex the installed-pump equation gives for a design flow
Desc_pump_capex(designflow) ==
    RMul(RMulN(tec_data.annualization_factor,
               tec_data.fitted_performance.coefficients.capex_pumps),
         designflow)

\* C30: OceanBattery3: the upper bound of each pump slot's capex variable
\* is derived from the pump capex coefficient (annualization factor *
\* capex_pumps), so the installed-pump capex equation capex = annualization
\* factor * capex_pumps * design_flow is satisfiable for every design flow
\* up to 1, whatever the turbine capex coefficient is.
C30_PumpCapexBound ==
    (pc = "built" /\ b_tec.builder = "OceanBattery3") =>
        /\ b_tec.bounds.capex_pumps =
                RMulN(tec_data.annualization_factor,
                      tec_data.fitted_performance.coefficients.capex_pumps)
        /\ \A designflow \in {Rat(k, 10) : k \in 0 .. 10} :
                Ocean_feasible_install(b_tec,
                    [kind |-> "pump", designflow |-> designflow,
                     install_indicator |-> [ind \in {0, 1} |-> ind],
                     capex |-> Desc_pump_capex(designflow)])

====
